---- MODULE Spec2Model ----
(***************************************************************************)
(* Turn execution engine of ollama-cli: the useOllamaStream hook           *)
(* (src/unnamed/part_003, lines 95-1409) together with the tool scheduler  *)
(* it drives.  The hook's state cells and refs are the variables; every    *)
(* callback of the hook is an operator on a record of those cells, and an  *)
(* action commits the record the callback returns.  The model backend's    *)
(* stream is the environment: it delivers any event, one at a time.        *)
(*                                                                         *)
(* Atomicity: JavaScript runs each callback to its next await on a         *)
(* network or file operation.  submitQuery up to the creation of the       *)
(* stream, the handling of one stream event, and what follows the end of   *)
(* the stream are one step each.                                           *)
(***************************************************************************)
EXTENDS Integers, Sequences, FiniteSets, TLC

\* ------------------------------------------------------------- bounds
\* Inputs of one run: the queries of the user that are accepted and the
\* events the streams deliver, counted together.
MaxInputs == 3

\* The events of the stream of one turn.
MaxTurnEvents == 4

\* The segments of a text given to the tool call parser.
MaxSegments == 2

VARIABLES
  history,          \* the history items added with addItem, oldest first
  pending,          \* pendingHistoryItem (NoItem is null)
  isResponding,     \* the isResponding state cell
  turnCancelled,    \* turnCancelledRef.current
  activeQueryId,    \* activeQueryIdRef.current (0 is null)
  abortControllerRef, \* id of the current AbortController (0 is null)
  aborted,          \* the AbortControllers whose signal has fired
  loopDetected,     \* loopDetectedRef.current
  loopRequest,      \* loopDetectionConfirmationRequest is set
  loopDisabled,     \* the loop detection service is disabled for the session
  lastQuery,        \* lastQueryRef.current
  quotaSwitched,    \* the modelSwitchedFromQuotaError prop
  toolCalls,        \* call ids of the batch the scheduler is tracking
  requestQueue,     \* batches waiting for the scheduler
  calls,            \* every tool call requested so far, by call id
  procs,            \* every accepted submitQuery invocation so far, by query id
  clientHistory,    \* messages given to ollamaClient.addHistory
  submitted,        \* call ids given to markToolsAsSubmitted
  notified,         \* the calls of each onComplete, with their status then
  abortCalls,       \* calls of AbortController.abort by cancelOngoingRequest
  cancelAllCalls,   \* calls of cancelAllToolCalls
  cancelledStreams, \* streams that were being consumed when a cancel took effect
  nInputs,          \* inputs taken so far
  approval,         \* the approval mode and what its last change confirmed
  checkpoint,       \* the last run of saveRestorableToolCalls
  parser,           \* a text given to OllamaToolCallParser and what it answered
  adapter,          \* the OllamaContentGenerator: its cache, its requests, its stream
  selector          \* a run of selectSmallestOllamaModel

vars ==<<history, pending, isResponding, turnCancelled, activeQueryId,
          abortControllerRef, aborted, loopDetected, loopRequest, loopDisabled,
          lastQuery, quotaSwitched, toolCalls, requestQueue, calls, procs,
          clientHistory, submitted, notified, abortCalls, cancelAllCalls,
          cancelledStreams, nInputs, approval, checkpoint, parser, adapter,
          selector>>

\* The state as one record: what a callback reads and what it returns.
Cur ==
  [history |-> history, pending |-> pending, isResponding |-> isResponding,
   turnCancelled |-> turnCancelled, activeQueryId |-> activeQueryId,
   abortControllerRef |-> abortControllerRef, aborted |-> aborted,
   loopDetected |-> loopDetected, loopRequest |-> loopRequest,
   loopDisabled |-> loopDisabled, lastQuery |-> lastQuery,
   quotaSwitched |-> quotaSwitched, toolCalls |-> toolCalls,
   requestQueue |-> requestQueue, calls |-> calls, procs |-> procs,
   clientHistory |-> clientHistory, submitted |-> submitted,
   notified |-> notified, abortCalls |-> abortCalls,
   cancelAllCalls |-> cancelAllCalls, cancelledStreams |-> cancelledStreams,
   nInputs |-> nInputs, approval |-> approval, checkpoint |-> checkpoint]

Commit(s) ==
  /\ history' = s.history
  /\ pending' = s.pending
  /\ isResponding' = s.isResponding
  /\ turnCancelled' = s.turnCancelled
  /\ activeQueryId' = s.activeQueryId
  /\ abortControllerRef' = s.abortControllerRef
  /\ aborted' = s.aborted
  /\ loopDetected' = s.loopDetected
  /\ loopRequest' = s.loopRequest
  /\ loopDisabled' = s.loopDisabled
  /\ lastQuery' = s.lastQuery
  /\ quotaSwitched' = s.quotaSwitched
  /\ toolCalls' = s.toolCalls
  /\ requestQueue' = s.requestQueue
  /\ calls' = s.calls
  /\ procs' = s.procs
  /\ clientHistory' = s.clientHistory
  /\ submitted' = s.submitted
  /\ notified' = s.notified
  /\ abortCalls' = s.abortCalls
  /\ cancelAllCalls' = s.cancelAllCalls
  /\ cancelledStreams' = s.cancelledStreams
  /\ nInputs' = s.nInputs
  /\ approval' = s.approval
  /\ checkpoint' = s.checkpoint
  /\ parser' = parser
  /\ adapter' = adapter
  /\ selector' = selector

\* ------------------------------------------------------------- data
\* A piece of text or of a tool response: q is the stream (or the call) it
\* comes from, k its position there, v its value.
Token(q, k, v) == [q |-> q, k |-> k, v |-> v]

\* A history item (HistoryItemWithoutId): text for assistant items, msg for
\* the others.
Item(type, text, msg) == [type |-> type, text |-> text, msg |-> msg]
NoItem == Item("null", <<>>, "")

NoQuery == [kind |-> "null", parts |-> <<>>]

TerminalStatuses == {"success", "error", "cancelled"}
IsTerminal(id, s) == s.calls[id].status \in TerminalStatuses

AddItem(s, item) == [s EXCEPT !.history = Append(@, item)]

SetPending(s, item) == [s EXCEPT !.pending = item]

\* if (pendingHistoryItemRef.current) { addItem(it); } setPendingHistoryItem(null)
FlushPending(s) ==
  IF s.pending # NoItem THEN SetPending(AddItem(s, s.pending), NoItem) ELSE s

\* ------------------------------------------------------------- tool names
EditToolNames == {"replace", "write_file"}
\* The tools a model asks for: a tool gated by approval and an unknown name.
\* A read-only tool behaves as a gated one whose approval is granted.
ToolNames == {"write_file", "no_such_tool"}
KnownTools == {"replace", "write_file", "run_shell_command", "list_directory"}
NeedsApproval == {"replace", "write_file", "run_shell_command"}

\* ------------------------------------------------------------- tool scheduler
\* The scheduler and its React wrapper (useReactToolScheduler) are imported by
\* the hook; they are modelled from section 4.4 of the specification.

StatusOf(id, s) == s.calls[id].status

SetStatus(s, id, st) == [s EXCEPT !.calls[id].status = st]

\* What the tool execution subsystem returns for a terminal call: a success
\* carries the function response and the tool's output, a failure or a
\* cancellation one function response saying so.
ResponseParts(id, s) ==
  CASE StatusOf(id, s) = "success" ->
         <<Token(id, 1, "functionResponse"), Token(id, 2, "output")>>
    [] StatusOf(id, s) = "error" -> <<Token(id, 1, "error")>>
    [] StatusOf(id, s) = "cancelled" -> <<Token(id, 1, "cancelled")>>
    [] OTHER -> <<>>

\* response?.responseParts !== undefined: a terminal call has its result
HasResponseParts(id, s) == IsTerminal(id, s)

AllTerminal(ids, s) == \A i \in 1..Len(ids) : IsTerminal(ids[i], s)

\* Mutant of BatchComplete: a race, the first call to finish completes the batch.
BatchCompleteAny(s) ==
  s.toolCalls # <<>> /\ \E i \in 1..Len(s.toolCalls) : IsTerminal(s.toolCalls[i], s)

\* The batch is complete: every call of it has reached a terminal state.
BatchComplete(s) == s.toolCalls # <<>> /\ AllTerminal(s.toolCalls, s)

RECURSIVE NewCalls(_, _, _)
\* The tracked calls made from the requests reqs of query q, all validating.
NewCalls(reqs, q, client) ==
  IF reqs = <<>> THEN <<>>
  ELSE <<[name |-> Head(reqs), client |-> client, status |-> "validating",
          query |-> q, responseSubmittedToOllama |-> FALSE]>>
       \o NewCalls(Tail(reqs), q, client)

\* scheduleToolCalls(requests, signal): the requests become one batch, which
\* the scheduler takes at once when it tracks none and queues otherwise.
scheduleToolCalls(s, reqs, q, client) ==
  LET first == Len(s.calls) + 1
      ids == [i \in 1..Len(reqs) |-> first + i - 1]
      s1 == [s EXCEPT !.calls = @ \o NewCalls(reqs, q, client),
                      !.procs[q].sched = Append(@, ids)]
  IN IF s.toolCalls = <<>>
     THEN [s1 EXCEPT !.toolCalls = ids]
     ELSE [s1 EXCEPT !.requestQueue = Append(@, ids)]

\* markToolsAsSubmitted(callIds): the tracked calls named are flagged
markToolsAsSubmitted(s, ids) ==
  [s EXCEPT !.submitted = @ \cup {ids[i] : i \in 1..Len(ids)},
            !.calls = [c \in DOMAIN @ |->
               IF /\ \E i \in 1..Len(ids) : ids[i] = c
                  /\ \E j \in 1..Len(s.toolCalls) : s.toolCalls[j] = c
               THEN [@[c] EXCEPT !.responseSubmittedToOllama = TRUE]
               ELSE @[c]]]

QueuedIds(s) ==
  UNION {{s.requestQueue[b][i] : i \in 1..Len(s.requestQueue[b])} :
         b \in 1..Len(s.requestQueue)}

TrackedIds(s) == {s.toolCalls[i] : i \in 1..Len(s.toolCalls)}

\* A cancelAllToolCalls that cancels the calls that have ended too.
cancelAllToolCallsEnded(s) ==
  [s EXCEPT !.cancelAllCalls = @ + 1,
            !.calls = [c \in DOMAIN @ |->
               IF c \in TrackedIds(s) \cup QueuedIds(s)
               THEN [@[c] EXCEPT !.status = "cancelled"]
               ELSE @[c]]]

\* cancelAllToolCalls(signal): every call that is not terminal, tracked or
\* queued, becomes cancelled.
cancelAllToolCalls(s) ==
  [s EXCEPT !.cancelAllCalls = @ + 1,
            !.calls = [c \in DOMAIN @ |->
               IF c \in TrackedIds(s) \cup QueuedIds(s) /\ ~IsTerminal(c, s)
               THEN [@[c] EXCEPT !.status = "cancelled"]
               ELSE @[c]]]

\* Validation: an unknown tool fails; a known one is scheduled, or waits for
\* approval when its class needs it and the approval mode does not grant it.
ValidateOutcomes(name) ==
  IF name \notin KnownTools THEN {"error"}
  ELSE IF name \in NeedsApproval THEN {"awaiting_approval", "scheduled"}
  ELSE {"scheduled"}

\* ------------------------------------------------------------- the hook
ActiveStates == {"Responding", "WaitingForConfirmation"}

streamingState(s) ==
  IF \E id \in TrackedIds(s) : StatusOf(id, s) = "awaiting_approval"
  THEN "WaitingForConfirmation"
  ELSE IF \/ s.isResponding
          \/ \E id \in TrackedIds(s) :
               \/ StatusOf(id, s) \in {"executing", "scheduled", "validating"}
               \/ /\ IsTerminal(id, s)
                  /\ ~s.calls[id].responseSubmittedToOllama
       THEN "Responding"
       ELSE "Idle"

\* The streams whose events are still being consumed.
ActiveStreams(s) == {q \in 1..Len(s.procs) : s.procs[q].phase = "stream"}

\* Id of the AbortController cancelOngoingRequest makes when the ref is null.
CancelController == -1

Info(msg) == Item("info", <<>>, msg)

\* cancelOngoingRequest once its two guards are passed.
cancelTurn(s) ==
  LET isFullCancellation ==
        ~\E id \in TrackedIds(s) : StatusOf(id, s) \in {"success", "error"}
      s1 == [s EXCEPT !.turnCancelled = TRUE,
                      !.abortControllerRef =
                         IF @ = 0 THEN CancelController ELSE @]
      s2 == [s1 EXCEPT !.aborted = @ \cup {s1.abortControllerRef},
                       !.abortCalls = @ + 1]
      s3 == FlushPending(cancelAllToolCalls(s2))
      s4 == IF isFullCancellation
            THEN [AddItem(s3, Info("Request cancelled."))
                    EXCEPT !.isResponding = FALSE]
            ELSE s3
  IN [s4 EXCEPT !.cancelledStreams = @ \cup ActiveStreams(s)]

\* Mutant of cancelOngoingRequest: turnCancelledRef is not looked at.
cancelOngoingRequestEveryTime(s) ==
  IF streamingState(s) \notin ActiveStates THEN s ELSE cancelTurn(s)

cancelOngoingRequest(s) ==
  IF streamingState(s) \notin ActiveStates THEN s
  ELSE IF s.turnCancelled THEN s
  ELSE cancelTurn(s)

\* findLastSafeSplitPoint (utils/markdownUtilities.js, imported): the end of
\* the last paragraph break of the buffer, the whole length when it has none.
findLastSafeSplitPoint(buf) ==
  LET breaks == {i \in 1..Len(buf) : buf[i].v = "nl"}
  IN IF breaks = {} THEN Len(buf)
     ELSE CHOOSE i \in breaks : \A j \in breaks : j <= i

\* Mutant of handleContentEvent: the buffer is not restarted when a new
\* pending item is begun.
handleContentEventKeepBuffer(s, q, tok) ==
  IF s.turnCancelled THEN [s EXCEPT !.procs[q].buffer = <<>>]
  ELSE
    LET fresh == s.pending.type \notin {"ollama", "ollama_content"}
        s1 == IF fresh
              THEN SetPending(FlushPending(s), Item("ollama", <<>>, ""))
              ELSE s
        buf == Append(s.procs[q].buffer, tok)
    IN [SetPending(s1, Item(s1.pending.type, buf, ""))
          EXCEPT !.procs[q].buffer = buf]

\* handleContentEvent(eventValue, currentOllamaMessageBuffer, ts): the value
\* returned becomes the buffer of stream q.
handleContentEvent(s, q, tok) ==
  IF s.turnCancelled THEN [s EXCEPT !.procs[q].buffer = <<>>]
  ELSE
    LET fresh == s.pending.type \notin {"ollama", "ollama_content"}
        s1 == IF fresh
              THEN SetPending(FlushPending(s), Item("ollama", <<>>, ""))
              ELSE s
        buf == IF fresh THEN <<tok>> ELSE Append(s.procs[q].buffer, tok)
        splitPoint == findLastSafeSplitPoint(buf)
    IN IF splitPoint = Len(buf)
       THEN [SetPending(s1, Item(s1.pending.type, buf, ""))
               EXCEPT !.procs[q].buffer = buf]
       ELSE
         LET beforeText == SubSeq(buf, 1, splitPoint)
             afterText == SubSeq(buf, splitPoint + 1, Len(buf))
         IN [SetPending(AddItem(s1, Item(s1.pending.type, beforeText, "")),
                        Item("ollama_content", afterText, ""))
               EXCEPT !.procs[q].buffer = afterText]

\* The pending item is never a tool group here: only handleContentEvent sets it.
handleUserCancelledEvent(s) ==
  IF s.turnCancelled THEN s
  ELSE [AddItem(FlushPending(s), Info("User cancelled the request."))
          EXCEPT !.isResponding = FALSE]

handleErrorEvent(s) == AddItem(FlushPending(s), Item("error", <<>>, "api error"))

handleCitationEvent(s) == AddItem(FlushPending(s), Info("citation"))

handleFinishedEvent(s, reason) ==
  IF reason \in {"STOP", "FINISH_REASON_UNSPECIFIED"} THEN s
  ELSE AddItem(s, Info("response stopped"))

handleChatCompressionEvent(s) == AddItem(FlushPending(s), Info("compressed"))

handleMaxSessionTurnsEvent(s) == AddItem(s, Info("max session turns"))

handleContextWindowWillOverflowEvent(s) == AddItem(s, Info("context overflow"))

\* Mutant of processEvent: a tool call request goes to the scheduler as it
\* arrives.
processEventEager(s, q, ev) ==
  CASE ev.type = "Content" ->
         handleContentEvent(s, q, Token(q, Len(s.procs[q].evs) + 1, ev.v))
    [] ev.type = "ToolCallRequest" -> scheduleToolCalls(s, <<ev.v>>, q, FALSE)
    [] ev.type = "LoopDetected" -> [s EXCEPT !.loopDetected = TRUE]
    [] OTHER -> s

\* One turn of the for-await loop of processOllamaStreamEvents.  Thought only
\* sets the thought cell, which is display state; ToolCallConfirmation,
\* ToolCallResponse, Retry, InvalidStream and ModelInfo (off by default) do
\* nothing.
processEvent(s, q, ev) ==
  CASE ev.type = "Content" ->
         handleContentEvent(s, q, Token(q, Len(s.procs[q].evs) + 1, ev.v))
    [] ev.type = "ToolCallRequest" -> [s EXCEPT !.procs[q].reqs = Append(@, ev.v)]
    [] ev.type = "UserCancelled" -> handleUserCancelledEvent(s)
    [] ev.type = "Error" -> handleErrorEvent(s)
    [] ev.type = "ChatCompressed" -> handleChatCompressionEvent(s)
    [] ev.type = "MaxSessionTurns" -> handleMaxSessionTurnsEvent(s)
    [] ev.type = "ContextWindowWillOverflow" ->
         handleContextWindowWillOverflowEvent(s)
    [] ev.type = "Finished" -> handleFinishedEvent(s, ev.v)
    [] ev.type = "Citation" -> handleCitationEvent(s)
    [] ev.type = "LoopDetected" -> [s EXCEPT !.loopDetected = TRUE]
    [] OTHER -> s

RECURSIVE scheduleEach(_, _, _)
\* Mutant of scheduleAccumulated: every request is scheduled on its own.
scheduleEach(s, q, reqs) ==
  IF reqs = <<>> THEN s
  ELSE scheduleEach(scheduleToolCalls(s, <<Head(reqs)>>, q, FALSE), q, Tail(reqs))

scheduleAccumulatedOneByOne(s, q) == scheduleEach(s, q, s.procs[q].reqs)

\* After the loop: if (toolCallRequests.length > 0) scheduleToolCalls(...)
scheduleAccumulated(s, q) ==
  IF s.procs[q].reqs # <<>>
  THEN scheduleToolCalls(s, s.procs[q].reqs, q, FALSE)
  ELSE s

\* finally { if (activeQueryIdRef.current === queryId) setIsResponding(false) }
finallyBlock(s, q) ==
  [(IF s.activeQueryId = q THEN [s EXCEPT !.isResponding = FALSE] ELSE s)
     EXCEPT !.procs[q].phase = "done"]

\* Mutant of afterStream: the loop request is raised and submitQuery returns
\* before the pending item is flushed.
afterStreamLoopFirst(s, q) ==
  IF s.loopDetected
  THEN finallyBlock([s EXCEPT !.loopDetected = FALSE, !.loopRequest = TRUE], q)
  ELSE finallyBlock(FlushPending(s), q)

\* What submitQuery does once processOllamaStreamEvents has returned.
afterStream(s, q) ==
  LET s1 == FlushPending(s)
      s2 == IF s1.loopDetected
            THEN [s1 EXCEPT !.loopDetected = FALSE, !.loopRequest = TRUE]
            ELSE s1
  IN finallyBlock(s2, q)

\* The catch block of submitQuery.
catchBlock(s, q, err) ==
  [finallyBlock(IF err \in {"UnauthorizedError", "AbortError"} THEN s
                ELSE AddItem(s, Item("error", <<>>, "api error")),
                q)
     EXCEPT !.procs[q].phase = "thrown"]

StringQuery == [kind |-> "string", parts |-> <<>>]
PartsQuery(parts) == [kind |-> "parts", parts |-> parts]

\* A submitQuery invocation: evs are the events the for-await loop has taken
\* from its stream and handled, reqs the local toolCallRequests, buffer the
\* local OllamaMessageBuffer, sched what it gave to scheduleToolCalls (one
\* entry per call of it).  phase is where the invocation stands: "stream"
\* while the loop runs, "done" once it returned, "thrown" once it threw,
\* "local" when it returned without a request to the model.
NewProc(kind, query, isContinuation) ==
  [kind |-> kind, phase |-> "prepare", isContinuation |-> isContinuation,
   query |-> query, buffer |-> <<>>, reqs |-> <<>>, evs |-> <<>>,
   sched |-> <<>>]

\* prepareQueryForOllama for query q, and what submitQuery does with its
\* answer up to sendMessageStream.  slash is what handleSlashCommand answers
\* for a string: "schedule_tool", "handled" (also an empty query, a shell
\* command, an @-command that does not proceed) or "none".
prepareAndSend(s, q, query, slash) ==
  IF query.kind = "string" /\ slash = "schedule_tool"
  THEN [scheduleToolCalls(s, <<"list_directory">>, q, TRUE)
          EXCEPT !.procs[q].phase = "local"]
  ELSE IF query.kind = "string" /\ slash = "handled"
  THEN [s EXCEPT !.procs[q].phase = "local"]
  ELSE
    LET s1 == IF query.kind = "string"
              THEN AddItem(s, Item("user", <<>>, "prompt"))
              ELSE s
    IN [s1 EXCEPT !.isResponding = TRUE, !.lastQuery = query,
                  !.procs[q].phase = "stream"]

\* The query id of a rejected submitQuery.  Ids are only compared with the
\* ids of the streams (finallyBlock), so one value stands for all of them.
RejectedQueryId == -2

submitQuery(s, kind, query, isContinuation, slash) ==
  LET queryId == Len(s.procs) + 1
  IN IF streamingState(s) \in ActiveStates /\ ~isContinuation
     THEN [s EXCEPT !.activeQueryId = RejectedQueryId]
     ELSE prepareAndSend(
            [s EXCEPT !.activeQueryId = queryId,
                      !.procs = Append(@, NewProc(kind, query, isContinuation)),
                      !.quotaSwitched = IF isContinuation THEN @ ELSE FALSE,
                      !.abortControllerRef = queryId,
                      !.turnCancelled = FALSE],
            queryId, query, slash)

RECURSIVE PartsOfSuccessful(_, _)
\* Mutant of PartsOf: the parts of the calls that did not succeed are left out.
PartsOfSuccessful(ids, s) ==
  IF ids = <<>> THEN <<>>
  ELSE (IF StatusOf(Head(ids), s) = "success" THEN ResponseParts(Head(ids), s)
        ELSE <<>>)
       \o PartsOfSuccessful(Tail(ids), s)

RECURSIVE PartsOf(_, _)
\* tools.flatMap((toolCall) => toolCall.response.responseParts)
PartsOf(ids, s) ==
  IF ids = <<>> THEN <<>>
  ELSE ResponseParts(Head(ids), s) \o PartsOf(Tail(ids), s)

\* Mutant of handleCompletedTools: client-initiated calls are handled as the
\* calls of the model.
handleCompletedToolsClientToo(s, completed) ==
  LET ollamaTools == SelectSeq(completed, LAMBDA id : IsTerminal(id, s))
      s2 == markToolsAsSubmitted(s, ollamaTools)
  IN IF ollamaTools = <<>> THEN s
     ELSE submitQuery(s2, "continuation", PartsQuery(PartsOf(ollamaTools, s)),
                      TRUE, "none")

\* Mutant of handleCompletedTools: no branch for a batch that is all cancelled.
handleCompletedToolsAlwaysResubmit(s, completed) ==
  LET ready == SelectSeq(completed, LAMBDA id : IsTerminal(id, s))
      ollamaTools == SelectSeq(ready, LAMBDA id : ~s.calls[id].client)
  IN IF ollamaTools = <<>> THEN s
     ELSE submitQuery(markToolsAsSubmitted(s, ollamaTools), "continuation",
                      PartsQuery(PartsOf(ollamaTools, s)), TRUE, "none")

handleCompletedTools(s, completed) ==
  LET ready == SelectSeq(completed,
                 LAMBDA id : IsTerminal(id, s) /\ HasResponseParts(id, s))
      clientTools == SelectSeq(ready, LAMBDA id : s.calls[id].client)
      s1 == IF clientTools # <<>> THEN markToolsAsSubmitted(s, clientTools)
            ELSE s
      ollamaTools == SelectSeq(ready, LAMBDA id : ~s.calls[id].client)
      allToolsCancelled ==
        \A i \in 1..Len(ollamaTools) : StatusOf(ollamaTools[i], s) = "cancelled"
  IN IF ollamaTools = <<>> THEN s1
     ELSE IF allToolsCancelled
     THEN
       LET s2 == IF ~s1.turnCancelled
                 THEN AddItem(s1, Info("Request cancelled."))
                 ELSE s1
           s3 == [s2 EXCEPT !.isResponding = FALSE,
                            !.clientHistory =
                               Append(@, PartsOf(ollamaTools, s))]
       IN markToolsAsSubmitted(s3, ollamaTools)
     ELSE
       LET s2 == markToolsAsSubmitted(s1, ollamaTools)
       IN IF s2.quotaSwitched THEN s2
          ELSE submitQuery(s2, "continuation",
                           PartsQuery(PartsOf(ollamaTools, s)), TRUE, "none")

\* mapTrackedToolCallsToDisplay: each call with its status
Display(ids, s) ==
  [i \in 1..Len(ids) |-> Token(ids[i], i, StatusOf(ids[i], s))]

\* The onComplete callback given to useReactToolScheduler.
onComplete(s, completed) ==
  IF Len(completed) > 0
  THEN
    LET s1 == [AddItem(s, Item("tool_group", Display(completed, s), ""))
                 EXCEPT !.toolCalls = <<>>]
    IN handleCompletedTools(s1, completed)
  ELSE s

\* The scheduler reports a complete batch to its owner and takes the next
\* batch waiting, if any.
notifyComplete(s) ==
  LET s1 == onComplete([s EXCEPT !.notified =
                                     Append(@, Display(s.toolCalls, s))],
                       s.toolCalls)
  IN IF s1.requestQueue # <<>>
     THEN [s1 EXCEPT !.toolCalls = Head(s1.requestQueue),
                     !.requestQueue = Tail(@)]
     ELSE s1

\* onComplete of the loop detection confirmation request.
loopDecision(s, userSelection) ==
  LET s1 == [s EXCEPT !.loopRequest = FALSE]
  IN IF userSelection = "disable"
     THEN
       LET s2 == AddItem([s1 EXCEPT !.loopDisabled = TRUE],
                         Info("loop detection disabled, retrying"))
       IN IF s2.lastQuery # NoQuery
          THEN submitQuery(s2, "retry", s2.lastQuery, TRUE, "none")
          ELSE s2
     ELSE AddItem(s1, Info("loop detected, halted"))

\* ------------------------------------------------------------- actions
\* The events a stream may deliver (ServerOllamaEventType), with the values
\* the handlers tell apart.  Finished with reason STOP stands for every event
\* that changes nothing (Thought, Retry, ...) and ChatCompressed for every
\* event that adds an informational item (Citation, MaxSessionTurns, ...).
Events ==
  [type : {"Content"}, v : {"t", "nl"}]
    \cup [type : {"ToolCallRequest"}, v : ToolNames]
    \cup [type : {"Finished"}, v : {"STOP"}]
    \cup [type : {"UserCancelled", "Error", "LoopDetected", "ChatCompressed"},
          v : {""}]

\* The approval mode of the session, the changes of it so far, and for
\* the last change the calls whose onConfirm was called and those for which
\* it threw.
NoApproval == [mode |-> "default", changes |-> 0, confirmed |-> <<>>, failed |-> {}]

\* What saveRestorableToolCalls finds: checkpointing enabled, a checkpoint
\* directory, mkdir succeeding, a git service, createFileSnapshot
\* succeeding, a commit hash to fall back on, writeFile succeeding, and the
\* calls whose arguments have no file_path.
CheckpointEnv(enabled, dir, mkdir, git, snapshot, commit, write, missing) ==
  [enabled |-> enabled, dir |-> dir, mkdir |-> mkdir, git |-> git,
   snapshot |-> snapshot, commit |-> commit, write |-> write, missing |-> missing]

AllFound == CheckpointEnv(TRUE, TRUE, TRUE, TRUE, TRUE, TRUE, TRUE, {})

\* The runs of saveRestorableToolCalls so far and the last one: whether
\* checkpointing was enabled, the calls it took, what failed, the calls
\* whose checkpoint file it wrote, the debug messages it gave, and whether
\* an error left it.
NoCheckpoint == [runs |-> 0, enabled |-> FALSE, taken |-> <<>>, failures |-> {},
                 written |-> {}, debug |-> {}, raised |-> FALSE]

HookInit ==
  /\ history = <<>>
  /\ pending = NoItem
  /\ isResponding = FALSE
  /\ turnCancelled = FALSE
  /\ activeQueryId = 0
  /\ abortControllerRef = 0
  /\ aborted = {}
  /\ loopDetected = FALSE
  /\ loopRequest = FALSE
  /\ loopDisabled = FALSE
  /\ lastQuery = NoQuery
  /\ quotaSwitched = FALSE
  /\ toolCalls = <<>>
  /\ requestQueue = <<>>
  /\ calls = <<>>
  /\ procs = <<>>
  /\ clientHistory = <<>>
  /\ submitted = {}
  /\ notified = <<>>
  /\ abortCalls = 0
  /\ cancelAllCalls = 0
  /\ cancelledStreams = {}
  /\ nInputs = 0
  /\ approval = NoApproval
  /\ checkpoint = NoCheckpoint

\* No text has been given to the parser.
NoText == [segs |-> <<>>, text |-> <<>>, parsed |-> FALSE, calls |-> <<>>,
           checked |-> FALSE, has |-> FALSE]

\* The generator of generateContentStream before its first read: the model
\* of its request, the complete lines split from the buffer so far, buffer,
\* accumulatedText, the chunks yielded, what the catch of a line logged,
\* how far the generator is ("running", "returned", "ended" or "thrown"),
\* and everything reader.read() has delivered, read after read.
NoStream == [model |-> "", lines |-> <<>>, buffer |-> <<>>,
             accumulatedText |-> <<>>, yielded |-> <<>>, logged |-> <<>>,
             status |-> "running", thrown |-> <<>>, read |-> <<>>]

\* The content generator after construction: no capability is cached
\* (modelCapabilities is an empty Map), nothing has been asked of it.
\* invocations are the calls of generateContent and generateContentStream so
\* far; completed is, for each model, the answers getModelCapabilities has
\* given, in the order it gave them.
NoAdapter == [stream |-> NoStream, modelCapabilities |-> <<>>,
              invocations |-> <<>>, completed |-> <<>>]

\* selectSmallestOllamaModel before it is called: what listModels will
\* answer (a list of models, or nothing when it fails), what the health
\* request of each model will be answered, where the function stands
\* ("list", "probe" or "done"), the sorted list, the names whose health was
\* asked, in the order of the requests, and what the function returned.
NoSelector == [listed |-> <<>>, fails |-> FALSE, answers |-> <<>>, pc |-> "list",
               sortedModels |-> <<>>, probed |-> <<>>, result |-> "none"]

Init == HookInit /\ parser = NoText /\ adapter = NoAdapter /\ selector = NoSelector

\* The user submits a query: submitQuery(query).
SubmitUser(slash) ==
  /\ nInputs < MaxInputs
  /\ Commit(LET s == submitQuery(Cur, "user", StringQuery, FALSE, slash)
            IN IF Len(s.procs) > Len(procs)
               THEN [s EXCEPT !.nInputs = @ + 1]
               ELSE s)

\* Stream q delivers its next event and the loop handles it.
StreamEvent(q, ev) ==
  /\ procs[q].phase = "stream"
  /\ nInputs < MaxInputs
  /\ Commit([processEvent(Cur, q, ev) EXCEPT !.procs[q].evs = Append(@, ev),
                                             !.nInputs = @ + 1])

\* Stream q ends: the loop is left, the accumulated requests are scheduled
\* and submitQuery runs to its end.
StreamEnd(q) ==
  /\ procs[q].phase = "stream"
  /\ Commit(afterStream(scheduleAccumulated(Cur, q), q))

\* Stream q throws: the catch and finally blocks of submitQuery run.
StreamThrow(q, err) ==
  /\ procs[q].phase = "stream"
  /\ Commit(catchBlock(Cur, q, err))

\* The escape key.
CancelOngoingRequest ==
  /\ streamingState(Cur) \in ActiveStates
  /\ Commit(cancelOngoingRequest(Cur))

\* The fallback handler of the application reports a model switch.  The hook
\* reads the prop only in handleCompletedTools and resets it only in a user
\* query, which is rejected while a batch is tracked: a switch at any earlier
\* time of the batch has the effect of one taken when the batch is complete.
QuotaSwitch ==
  /\ BatchComplete(Cur)
  /\ ~quotaSwitched
  /\ quotaSwitched' = TRUE
  /\ UNCHANGED <<history, pending, isResponding, turnCancelled, activeQueryId,
                 abortControllerRef, aborted, loopDetected, loopRequest,
                 loopDisabled, lastQuery, toolCalls, requestQueue, calls,
                 procs, clientHistory, submitted, notified, abortCalls,
                 cancelAllCalls, cancelledStreams, nInputs, approval,
                 checkpoint, parser, adapter, selector>>

\* The operator answers the loop detection confirmation request.
LoopDecision(userSelection) ==
  /\ loopRequest
  /\ Commit(loopDecision(Cur, userSelection))

\* Scheduler steps on a tracked call.
Validate(id, outcome) ==
  /\ id \in TrackedIds(Cur)
  /\ calls[id].status = "validating"
  /\ outcome \in ValidateOutcomes(calls[id].name)
  /\ Commit(SetStatus(Cur, id, outcome))

\* The approval layer answers: proceed (once or always) or reject.
Confirm(id, outcome) ==
  /\ id \in TrackedIds(Cur)
  /\ calls[id].status = "awaiting_approval"
  /\ Commit(SetStatus(Cur, id, IF outcome = "reject" THEN "error" ELSE "scheduled"))

Start(id) ==
  /\ id \in TrackedIds(Cur)
  /\ calls[id].status = "scheduled"
  /\ Commit(SetStatus(Cur, id, "executing"))

Finish(id, outcome) ==
  /\ id \in TrackedIds(Cur)
  /\ calls[id].status = "executing"
  /\ Commit(SetStatus(Cur, id, outcome))

NotifyComplete ==
  /\ BatchComplete(Cur)
  /\ Commit(notifyComplete(Cur))

Next ==
  \/ \E slash \in {"none", "schedule_tool", "handled"} : SubmitUser(slash)
  \/ \E q \in 1..Len(procs) : \E ev \in Events : StreamEvent(q, ev)
  \/ \E q \in 1..Len(procs) : StreamEnd(q)
  \/ \E q \in 1..Len(procs) :
       \E err \in {"AbortError", "Error"} : StreamThrow(q, err)
  \/ CancelOngoingRequest
  \/ QuotaSwitch
  \/ \E userSelection \in {"disable", "keep"} : LoopDecision(userSelection)
  \/ \E id \in 1..Len(calls) :
       \E outcome \in {"error", "awaiting_approval", "scheduled"} :
         Validate(id, outcome)
  \/ \E id \in 1..Len(calls) : \E outcome \in {"proceed", "reject"} :
       Confirm(id, outcome)
  \/ \E id \in 1..Len(calls) : Start(id)
  \/ \E id \in 1..Len(calls) : \E outcome \in {"success", "error"} :
       Finish(id, outcome)
  \/ NotifyComplete

Spec == Init /\ [][Next]_vars

\* The engine with what its environment is bound to do: a stream that is
\* being consumed ends or throws, the scheduler goes on with the calls it
\* has validated or started, and reports a batch that is complete.  The user
\* is bound to nothing.
SpecLive ==
  /\ Init
  /\ [][Next]_vars
  /\ WF_vars(\E q \in 1..Len(procs) : StreamEnd(q))
  /\ WF_vars(\E id \in 1..Len(calls) :
               \E outcome \in {"error", "awaiting_approval", "scheduled"} :
                 Validate(id, outcome))
  /\ WF_vars(\E id \in 1..Len(calls) : Start(id))
  /\ WF_vars(\E id \in 1..Len(calls) : \E outcome \in {"success", "error"} :
               Finish(id, outcome))
  /\ WF_vars(NotifyComplete)

\* ------------------------------------------------- approval and checkpoints
\* handleApprovalModeChange (part_003, lines 1099-1136) and the effect
\* saveRestorableToolCalls (lines 1277-1394).  onConfirm is the scheduler's:
\* a confirmation to proceed schedules a call that awaits approval.

ApprovalModes == {"default", "autoEdit", "yolo"}

\* The changes of the approval mode and the runs of saveRestorableToolCalls
\* in one run.
MaxModeChanges == 1
MaxSaves == 1

\* The loop over the calls to approve that is left at the first failure.
RECURSIVE confirmEachUntilFailure(_, _, _)
confirmEachUntilFailure(s, ids, failing) ==
  IF ids = <<>> THEN s
  ELSE LET id == Head(ids)
           called == [s EXCEPT !.approval.confirmed = Append(@, id)]
       IN IF id \in failing
          THEN [called EXCEPT !.approval.failed = @ \cup {id}]
          ELSE confirmEachUntilFailure(
                 IF StatusOf(id, s) = "awaiting_approval"
                 THEN SetStatus(called, id, "scheduled") ELSE called,
                 Tail(ids), failing)

\* for (const call of awaitingApprovalCalls) (lines 1119-1132): onConfirm
\* is called with ProceedOnce for each call in turn; for the calls in
\* failing it throws, which is caught and logged.
RECURSIVE confirmEach(_, _, _)
confirmEach(s, ids, failing) ==
  IF ids = <<>> THEN s
  ELSE LET id == Head(ids)
           called == [s EXCEPT !.approval.confirmed = Append(@, id)]
       IN confirmEach(
            IF id \in failing
            THEN [called EXCEPT !.approval.failed = @ \cup {id}]
            ELSE IF StatusOf(id, s) = "awaiting_approval"
            THEN SetStatus(called, id, "scheduled") ELSE called,
            Tail(ids), failing)

\* handleApprovalModeChange(newApprovalMode)
handleApprovalModeChange(s, newApprovalMode, failing) ==
  LET awaiting == SelectSeq(s.toolCalls,
                            LAMBDA id : StatusOf(id, s) = "awaiting_approval")
      awaitingApprovalCalls ==
        IF newApprovalMode = "autoEdit"
        THEN SelectSeq(awaiting, LAMBDA id : s.calls[id].name \in EditToolNames)
        ELSE awaiting
      changed == [s EXCEPT !.approval = [mode |-> newApprovalMode,
                                         changes |-> @.changes + 1,
                                         confirmed |-> <<>>, failed |-> {}]]
  IN IF newApprovalMode \in {"yolo", "autoEdit"}
     THEN confirmEach(changed, awaitingApprovalCalls, failing)
     ELSE changed

\* The body of the loop over the restorable calls (lines 1306-1382) for one
\* call: what failed, the debug messages given, whether the file is written.
checkpointOne(env, id) ==
  IF id \in env.missing
  THEN [failures |-> {"file_path"},
        debug |-> {"Skipping restorable tool call due to missing file_path"},
        written |-> FALSE]
  ELSE IF ~env.git
  THEN [failures |-> {"git"}, debug |-> {"Git service is not available"},
        written |-> FALSE]
  ELSE LET failed == IF env.snapshot THEN {} ELSE {"snapshot"}
           said == IF env.snapshot THEN {} ELSE {"Failed to create new snapshot"}
       IN IF ~env.snapshot /\ ~env.commit
          THEN [failures |-> failed \cup {"commit"},
                debug |-> said \cup {"Failed to create snapshot"}, written |-> FALSE]
          ELSE IF ~env.write
          THEN [failures |-> failed \cup {"write"},
                debug |-> said \cup {"Failed to create checkpoint"}, written |-> FALSE]
          ELSE [failures |-> failed, debug |-> said, written |-> TRUE]

\* A saveRestorableToolCalls whose failure is the failure of the calls: the
\* error leaves it and the calls it took become errors.
saveRestorableToolCallsOrFail(s, env) ==
  LET taken == SelectSeq(s.toolCalls,
                         LAMBDA id : /\ s.calls[id].name \in EditToolNames
                                     /\ StatusOf(id, s) = "awaiting_approval")
      ok == env = [env EXCEPT !.enabled = TRUE, !.dir = TRUE, !.mkdir = TRUE,
                              !.git = TRUE, !.snapshot = TRUE, !.write = TRUE,
                              !.missing = {}]
  IN [s EXCEPT !.checkpoint = [runs |-> @.runs + 1, enabled |-> env.enabled,
                               taken |-> taken, failures |-> {},
                               written |-> {}, debug |-> {}, raised |-> ~ok],
               !.calls = [c \in DOMAIN @ |->
                  IF ~ok /\ \E i \in 1..Len(taken) : taken[i] = c
                  THEN [@[c] EXCEPT !.status = "error"] ELSE @[c]]]

\* saveRestorableToolCalls() (lines 1278-1385)
saveRestorableToolCalls(s, env) ==
  LET restorableToolCalls ==
        SelectSeq(s.toolCalls,
                  LAMBDA id : /\ s.calls[id].name \in EditToolNames
                              /\ StatusOf(id, s) = "awaiting_approval")
      ids == {restorableToolCalls[i] : i \in 1..Len(restorableToolCalls)}
      run(taken, failures, written, debug) ==
        [s EXCEPT !.checkpoint = [runs |-> @.runs + 1, enabled |-> env.enabled,
                                  taken |-> taken, failures |-> failures,
                                  written |-> written, debug |-> debug,
                                  raised |-> FALSE]]
  IN IF ~env.enabled THEN run(<<>>, {}, {}, {})
     ELSE IF restorableToolCalls = <<>> THEN run(<<>>, {}, {}, {})
     ELSE IF ~env.dir THEN run(restorableToolCalls, {"dir"}, {}, {})
     ELSE IF ~env.mkdir
     THEN run(restorableToolCalls, {"mkdir"}, {},
              {"Failed to create checkpoint directory"})
     ELSE run(restorableToolCalls,
              UNION {checkpointOne(env, id).failures : id \in ids},
              {id \in ids : checkpointOne(env, id).written},
              UNION {checkpointOne(env, id).debug : id \in ids})

\* The tool requests of the streams of this part.
ApprovalEvents == [type : {"ToolCallRequest"}, v : {"write_file", "run_shell_command"}]

\* What the runs of saveRestorableToolCalls find: nothing wrong, or one
\* thing wrong.
CheckpointEnvs ==
  { AllFound,
    [AllFound EXCEPT !.enabled = FALSE],
    [AllFound EXCEPT !.dir = FALSE],
    [AllFound EXCEPT !.mkdir = FALSE],
    [AllFound EXCEPT !.git = FALSE],
    [AllFound EXCEPT !.snapshot = FALSE],
    [AllFound EXCEPT !.snapshot = FALSE, !.commit = FALSE],
    [AllFound EXCEPT !.write = FALSE],
    [AllFound EXCEPT !.missing = {1}] }

\* The user submits a query.
SubmitPlain ==
  /\ nInputs < MaxInputs
  /\ Commit(LET s == submitQuery(Cur, "user", StringQuery, FALSE, "none")
            IN IF Len(s.procs) > Len(procs)
               THEN [s EXCEPT !.nInputs = @ + 1]
               ELSE s)

\* The approval mode is changed.
HandleApprovalModeChange(newApprovalMode, failing) ==
  /\ approval.changes < MaxModeChanges
  /\ newApprovalMode # approval.mode
  /\ failing \subseteq TrackedIds(Cur)
  /\ Commit(handleApprovalModeChange(Cur, newApprovalMode, failing))

\* The effect runs.
SaveRestorableToolCalls(env) ==
  /\ checkpoint.runs < MaxSaves
  /\ Commit(saveRestorableToolCalls(Cur, env))

NextApproval ==
  \/ SubmitPlain
  \/ \E q \in 1..Len(procs) : \E ev \in ApprovalEvents : StreamEvent(q, ev)
  \/ \E q \in 1..Len(procs) : StreamEnd(q)
  \/ CancelOngoingRequest
  \/ \E id \in 1..Len(calls) :
       \E outcome \in {"error", "awaiting_approval", "scheduled"} :
         Validate(id, outcome)
  \/ \E id \in 1..Len(calls) : \E outcome \in {"proceed", "reject"} :
       Confirm(id, outcome)
  \/ \E id \in 1..Len(calls) : Start(id)
  \/ \E id \in 1..Len(calls) : \E outcome \in {"success", "error"} :
       Finish(id, outcome)
  \/ NotifyComplete
  \/ \E mode \in ApprovalModes, failing \in SUBSET (1..Len(calls)) :
       HandleApprovalModeChange(mode, failing)

SpecApproval == Init /\ [][NextApproval]_vars

\* The engine with the checkpoints of the calls that await approval.
NextCheckpoint ==
  \/ SubmitPlain
  \/ \E q \in 1..Len(procs) : \E ev \in ApprovalEvents : StreamEvent(q, ev)
  \/ \E q \in 1..Len(procs) : StreamEnd(q)
  \/ \E id \in 1..Len(calls) :
       \E outcome \in {"error", "awaiting_approval", "scheduled"} :
         Validate(id, outcome)
  \/ \E id \in 1..Len(calls) : \E outcome \in {"proceed", "reject"} :
       Confirm(id, outcome)
  \/ \E id \in 1..Len(calls) : Start(id)
  \/ \E id \in 1..Len(calls) : \E outcome \in {"success", "error"} :
       Finish(id, outcome)
  \/ NotifyComplete
  \/ \E env \in CheckpointEnvs : SaveRestorableToolCalls(env)

SpecCheckpoint == Init /\ [][NextCheckpoint]_vars

\* ------------------------------------------------------------- one turn
\* The hook over one turn in which the model asks for no tool: what the stream
\* then delivers.
TurnEvents ==
  [type : {"Content"}, v : {"t", "nl"}]
    \cup [type : {"ChatCompressed", "Error"}, v : {""}]

SubmitTurn ==
  /\ procs = <<>>
  /\ Commit(submitQuery(Cur, "user", StringQuery, FALSE, "none"))

TurnEvent(q, ev) ==
  /\ procs[q].phase = "stream"
  /\ Len(procs[q].evs) < MaxTurnEvents
  /\ Commit([processEvent(Cur, q, ev) EXCEPT !.procs[q].evs = Append(@, ev)])

NextTurn ==
  \/ SubmitTurn
  \/ \E q \in 1..Len(procs) : \E ev \in TurnEvents : TurnEvent(q, ev)
  \/ \E q \in 1..Len(procs) : StreamEnd(q)
  \/ \E q \in 1..Len(procs) : StreamThrow(q, "Error")
  \/ CancelOngoingRequest

SpecTurn == Init /\ [][NextTurn]_vars

\* ------------------------------------------------------------- tool call parser
\* OllamaToolCallParser (adapters/ollamaToolCallParser.ts).  A text is a
\* sequence of tokens, each a run of characters the parser's patterns cannot
\* split: a marker tag, a brace, a JSON member key with its colon, a JSON
\* string, a string-valued member of an arguments object, a code fence, an
\* identifier, a parenthesis, a quoted literal.  Tokens that follow each
\* other are adjacent in the text; white space is a token of its own.
Tok(k, a, b) == [k |-> k, a |-> a, b |-> b]

Open(tag) == Tok("open", tag, "")
Close(tag) == Tok("close", tag, "")
LB == Tok("lb", "", "")
RB == Tok("rb", "", "")
Key(name) == Tok("key", name, "")
Str(v) == Tok("str", v, "")
KV(key, v) == Tok("kv", key, v)
Comma == Tok("comma", "", "")
Space == Tok("ws", " ", "")
NL == Tok("ws", "nl", "")
Fence(lang) == Tok("fence", lang, "")
Word(w) == Tok("word", w, "")
Ident(w) == Tok("ident", w, "")
LP == Tok("lp", "", "")
RP == Tok("rp", "", "")
Quoted(v) == Tok("q", v, "'")
Eq == Tok("eq", "", "")
Junk == Tok("junk", "", "")

\* A FunctionCall: args is a function from the keys to the values.
FunctionCall(name, args) == [name |-> name, args |-> args]

\* The object whose entries (key, value pairs in order) are given: a later
\* entry replaces an earlier one of the same key.
ObjectOf(entries) ==
  [k \in {entries[i][1] : i \in 1..Len(entries)} |->
     LET last == CHOOSE i \in 1..Len(entries) :
                   /\ entries[i][1] = k
                   /\ \A j \in 1..Len(entries) : entries[j][1] = k => j <= i
     IN entries[last][2]]

\* What JSON.parse answers.  ok is false when it throws.  A member that is
\* absent is "" (name, tool) or has is false (arguments, args): both are
\* falsy, as undefined is.
NoArgs == [has |-> FALSE, entries |-> <<>>]
EmptyObject == [ok |-> TRUE, name |-> "", tool |-> "", arguments |-> NoArgs,
                args |-> NoArgs]
SyntaxError == [EmptyObject EXCEPT !.ok = FALSE]

RECURSIVE ParseEntries(_, _, _)
\* The members of an arguments object from token i on, the first one
\* expected at i: [ok, entries, next], next being the token after its brace.
ParseEntries(t, i, acc) ==
  IF i + 1 > Len(t) \/ t[i].k # "kv"
  THEN [ok |-> FALSE, entries |-> <<>>, next |-> i]
  ELSE LET acc1 == Append(acc, <<t[i].a, t[i].b>>)
       IN IF t[i + 1].k = "rb"
          THEN [ok |-> TRUE, entries |-> acc1, next |-> i + 2]
          ELSE IF t[i + 1].k = "comma"
          THEN ParseEntries(t, i + 2, acc1)
          ELSE [ok |-> FALSE, entries |-> <<>>, next |-> i]

\* A JSON object value whose opening brace is token i - 1.
ParseArgsObject(t, i) ==
  IF i <= Len(t) /\ t[i].k = "rb"
  THEN [ok |-> TRUE, entries |-> <<>>, next |-> i + 1]
  ELSE ParseEntries(t, i, <<>>)

RECURSIVE ParseMembers(_, _, _)
\* The members of the top-level object from token i on, one expected at i;
\* the last token of t is the closing brace.
ParseMembers(t, i, obj) ==
  LET after(j, o) ==
        IF j = Len(t) THEN o
        ELSE IF t[j].k = "comma" /\ j + 1 < Len(t)
        THEN ParseMembers(t, j + 1, o)
        ELSE SyntaxError
  IN IF i >= Len(t) THEN SyntaxError
     ELSE IF t[i].k = "kv" THEN after(i + 1, obj)
     ELSE IF t[i].k # "key" THEN SyntaxError
     ELSE IF t[i].a \in {"name", "tool"}
     THEN IF t[i + 1].k = "str"
          THEN after(i + 2, IF t[i].a = "name"
                            THEN [obj EXCEPT !.name = t[i + 1].a]
                            ELSE [obj EXCEPT !.tool = t[i + 1].a])
          ELSE SyntaxError
     ELSE IF t[i + 1].k = "lb"
     THEN LET inner == ParseArgsObject(t, i + 2)
              value == [has |-> TRUE, entries |-> inner.entries]
          IN IF ~inner.ok \/ inner.next > Len(t) THEN SyntaxError
             ELSE after(inner.next,
                        IF t[i].a = "arguments"
                        THEN [obj EXCEPT !.arguments = value]
                        ELSE [obj EXCEPT !.args = value])
     ELSE SyntaxError

\* JSON.parse of the tokens toks, for the JSON the models write: an object
\* whose name and tool are strings and whose arguments and args are objects
\* of strings.  White space between tokens is not significant.
JSONparse(toks) ==
  LET t == SelectSeq(toks, LAMBDA x : x.k # "ws")
  IN IF Len(t) < 2 \/ t[1].k # "lb" \/ t[Len(t)].k # "rb" THEN SyntaxError
     ELSE IF Len(t) = 2 THEN EmptyObject
     ELSE ParseMembers(t, 2, EmptyObject)

\* Index of the first token at or after i that is not white space.
RECURSIVE SkipSpace(_, _)
SkipSpace(text, i) ==
  IF i <= Len(text) /\ text[i].k = "ws" THEN SkipSpace(text, i + 1) ELSE i

SynonymKeys == {"path", "filepath", "file", "cmd", "dir", "directory", "folder"}

\* normalizeParamName without its table.
normalizeParamNameUnchanged(param, toolName) == param

normalizeParamName(param, toolName) ==
  IF param \in {"path", "filepath", "file"} THEN "file_path"
  ELSE IF param \in {"cmd", "command"} THEN "command"
  ELSE IF param \in {"dir", "directory", "folder"} THEN "dir_path"
  ELSE param

normalizeArguments(entries, toolName) ==
  ObjectOf([i \in 1..Len(entries) |->
              <<normalizeParamName(entries[i][1], toolName), entries[i][2]>>])

Min(S) == CHOOSE x \in S : \A y \in S : x <= y

\* Index of the last token at or before i that is not white space, or 0.
RECURSIVE PrevNonSpace(_, _)
PrevNonSpace(text, i) ==
  IF i >= 1 /\ text[i].k = "ws" THEN PrevNonSpace(text, i - 1) ELSE i

\* Where the pattern of parseXMLWrappedJSON, begun with the brace at j, ends
\* its lazy capture: the first closing brace that white space and a closing
\* marker tag follow; 0 when there is none.
XmlCaptureEnd(text, j) ==
  LET ends == {e \in (j + 1)..Len(text) :
                 /\ text[e].k = "rb"
                 /\ SkipSpace(text, e + 1) <= Len(text)
                 /\ text[SkipSpace(text, e + 1)].k = "close"}
  IN IF ends = {} THEN 0 ELSE Min(ends)

\* The captures of /<(?:xml|tools)>\s*(\{[\s\S]*?\})\s*<\/(?:xml|tools)>/g
\* from token p on, in order.
RECURSIVE XmlMatches(_, _)
XmlMatches(text, p) ==
  LET starts == {i \in p..Len(text) :
                   /\ text[i].k = "open"
                   /\ SkipSpace(text, i + 1) <= Len(text)
                   /\ text[SkipSpace(text, i + 1)].k = "lb"
                   /\ XmlCaptureEnd(text, SkipSpace(text, i + 1)) # 0}
  IN IF starts = {} THEN <<>>
     ELSE LET j == SkipSpace(text, Min(starts) + 1)
              e == XmlCaptureEnd(text, j)
          IN <<SubSeq(text, j, e)>> \o XmlMatches(text, SkipSpace(text, e + 1) + 1)

\* The body of the loop of parseXMLWrappedJSON for one capture: the call
\* it pushes, none when JSON.parse throws or the object is not a call.
xmlCall(capture) ==
  LET parsed == JSONparse(capture)
  IN IF ~parsed.ok THEN <<>>
     ELSE IF parsed.name # "" /\ parsed.arguments.has
     THEN <<FunctionCall(parsed.name,
                         normalizeArguments(parsed.arguments.entries, parsed.name))>>
     ELSE IF parsed.tool # "" /\ parsed.args.has
     THEN <<FunctionCall(parsed.tool,
                         normalizeArguments(parsed.args.entries, parsed.tool))>>
     ELSE <<>>

RECURSIVE xmlEach(_)
xmlEach(captures) ==
  IF captures = <<>> THEN <<>>
  ELSE xmlCall(Head(captures)) \o xmlEach(Tail(captures))

\* The loop that would stop at the first capture that yields no call.
RECURSIVE xmlUntilFailure(_)
xmlUntilFailure(captures) ==
  IF captures = <<>> \/ xmlCall(Head(captures)) = <<>> THEN <<>>
  ELSE xmlCall(Head(captures)) \o xmlUntilFailure(Tail(captures))

parseXMLWrappedJSONAborting(text) == xmlUntilFailure(XmlMatches(text, 1))

parseXMLWrappedJSON(text) == xmlEach(XmlMatches(text, 1))

\* Index of the first brace after i, or 0.
NextBrace(text, i) ==
  LET braces == {b \in (i + 1)..Len(text) : text[b].k \in {"lb", "rb"}}
  IN IF braces = {} THEN 0 ELSE Min(braces)

\* Where the loose pattern of parseJSONToolCalls, begun with the brace at i,
\* ends, or 0: no brace but those of the args object lies inside, "tool"
\* with a non-empty string comes before "args", whose value is an object.
LooseEnd(text, i) ==
  LET b1 == NextBrace(text, i)
      ka == IF b1 = 0 THEN 0 ELSE PrevNonSpace(text, b1 - 1)
      b2 == IF b1 = 0 THEN 0 ELSE NextBrace(text, b1)
      b3 == IF b2 = 0 THEN 0 ELSE NextBrace(text, b2)
  IN IF /\ b3 # 0
        /\ text[b1].k = "lb" /\ text[b2].k = "rb" /\ text[b3].k = "rb"
        /\ ka > i /\ text[ka] = Key("args")
        /\ \E t \in (i + 1)..(ka - 1) :
             /\ text[t] = Key("tool")
             /\ SkipSpace(text, t + 1) < ka
             /\ text[SkipSpace(text, t + 1)].k = "str"
             /\ text[SkipSpace(text, t + 1)].a # ""
     THEN b3 ELSE 0

\* The matches of the loose pattern from token p on, in order.
RECURSIVE LooseMatches(_, _)
LooseMatches(text, p) ==
  LET starts == {i \in p..Len(text) : text[i].k = "lb" /\ LooseEnd(text, i) # 0}
  IN IF starts = {} THEN <<>>
     ELSE LET i == Min(starts)
          IN <<SubSeq(text, i, LooseEnd(text, i))>>
             \o LooseMatches(text, LooseEnd(text, i) + 1)

\* The call pushed for one match of the loose pattern: the args as parsed.
looseCall(match) ==
  LET parsed == JSONparse(match)
  IN IF parsed.ok /\ parsed.tool # "" /\ parsed.args.has
     THEN <<FunctionCall(parsed.tool, ObjectOf(parsed.args.entries))>>
     ELSE <<>>

RECURSIVE looseEach(_)
looseEach(matches) ==
  IF matches = <<>> THEN <<>>
  ELSE looseCall(Head(matches)) \o looseEach(Tail(matches))

\* Whether the text of the tokens contains "tool" or "name" in quotes.
MentionsToolOrName(toks) ==
  \E i \in 1..Len(toks) :
    \/ toks[i].k \in {"key", "str"} /\ toks[i].a \in {"tool", "name"}
    \/ toks[i].k = "kv" /\ {toks[i].a, toks[i].b} \cap {"tool", "name"} # {}

\* Where the capture of the fenced pattern that opens with the fence at i
\* begins and ends, and its closing fence; zeros when it does not match:
\* the fence (``` or ```json), white space ending in a newline, an object
\* that mentions "tool" or "name" and holds no backtick, white space ending
\* in a newline, a fence.
FencedCapture(text, i) ==
  LET j == SkipSpace(text, i + 1)
      fences == {f \in (j + 1)..Len(text) : text[f].k = "fence"}
      f2 == IF fences = {} THEN 0 ELSE Min(fences)
      e == IF f2 = 0 THEN 0 ELSE PrevNonSpace(text, f2 - 1)
  IN IF /\ text[i].k = "fence" /\ text[i].a \in {"", "json"}
        /\ j <= Len(text) /\ j > i + 1 /\ text[j - 1] = NL /\ text[j].k = "lb"
        /\ f2 # 0 /\ e > j /\ e < f2 - 1 /\ text[f2 - 1] = NL /\ text[e].k = "rb"
        /\ MentionsToolOrName(SubSeq(text, j, e))
     THEN <<j, e, f2>> ELSE <<0, 0, 0>>

\* The captures of the fenced pattern from token p on, in order.
RECURSIVE FencedMatches(_, _)
FencedMatches(text, p) ==
  LET starts == {i \in p..Len(text) : FencedCapture(text, i)[1] # 0}
  IN IF starts = {} THEN <<>>
     ELSE LET m == FencedCapture(text, Min(starts))
          IN <<SubSeq(text, m[1], m[2])>> \o FencedMatches(text, m[3] + 1)

RECURSIVE fencedEach(_)
\* The second loop of parseJSONToolCalls: its body is that of the loop of
\* parseXMLWrappedJSON.
fencedEach(captures) ==
  IF captures = <<>> THEN <<>>
  ELSE xmlCall(Head(captures)) \o fencedEach(Tail(captures))

parseJSONToolCalls(text) ==
  looseEach(LooseMatches(text, 1)) \o fencedEach(FencedMatches(text, 1))

\* toolNames of parseFunctionCallFormat, in its order.
toolNames == <<"write_file", "read_file", "list_directory", "run_shell_command",
               "replace_in_file", "edit_file", "search_files", "web_search">>

toolParamMap ==
  [toolName \in {toolNames[n] : n \in 1..Len(toolNames)} |->
     CASE toolName = "write_file" -> <<"file_path", "content">>
       [] toolName = "read_file" -> <<"file_path", "offset", "limit">>
       [] toolName = "list_directory" -> <<"dir_path">>
       [] toolName = "run_shell_command" -> <<"command">>
       [] toolName \in {"edit_file", "replace_in_file"} ->
            <<"file_path", "old_string", "new_string">>
       [] OTHER -> <<"query">>]

\* position counts from 0, as in the source, which asks for 0 and 1 only.
getPositionalParamName(toolName, position) ==
  IF toolName \in DOMAIN toolParamMap /\ position < Len(toolParamMap[toolName])
  THEN toolParamMap[toolName][position + 1]
  ELSE IF position = 0 THEN "file_path"
  ELSE IF position = 1 THEN "content"
  ELSE "arg"

\* The tokens without the white space at their two ends.
Trim(toks) ==
  IF \A i \in 1..Len(toks) : toks[i].k = "ws" THEN <<>>
  ELSE SubSeq(toks, SkipSpace(toks, 1), PrevNonSpace(toks, Len(toks)))

\* The parts between the commas, trimmed, the empty ones dropped.  The
\* literals of the texts hold no comma, quote or backslash.
RECURSIVE splitArguments(_)
splitArguments(argsString) ==
  LET commas == {i \in 1..Len(argsString) : argsString[i].k = "comma"}
      cut == IF commas = {} THEN Len(argsString) + 1 ELSE Min(commas)
      current == Trim(SubSeq(argsString, 1, cut - 1))
      rest == IF commas = {} THEN <<>>
              ELSE splitArguments(SubSeq(argsString, cut + 1, Len(argsString)))
  IN (IF current = <<>> THEN <<>> ELSE <<current>>) \o rest

\* A part is one token in the texts: a quoted literal loses its quotes, a
\* bare word stays.
unquoteString(str) ==
  LET trimmed == Trim(str)
  IN IF Len(trimmed) = 1 THEN trimmed[1].a ELSE "several tokens"

\* The entries that keyValuePattern finds: a word, "=", a quoted literal.
KeyValueEntries(argsString, toolName) ==
  LET at == {e \in 1..Len(argsString) :
               /\ argsString[e].k = "eq"
               /\ PrevNonSpace(argsString, e - 1) >= 1
               /\ argsString[PrevNonSpace(argsString, e - 1)].k \in {"word", "ident"}
               /\ SkipSpace(argsString, e + 1) <= Len(argsString)
               /\ argsString[SkipSpace(argsString, e + 1)].k = "q"}
      order == SelectSeq([i \in 1..Len(argsString) |-> i], LAMBDA e : e \in at)
  IN [n \in 1..Len(order) |->
        <<normalizeParamName(argsString[PrevNonSpace(argsString, order[n] - 1)].a,
                             toolName),
          argsString[SkipSpace(argsString, order[n] + 1)].a>>]

\* The two positional branches of parseArguments for the parts given; the
\* other numbers of parts reach "return null".
positionalArgs(parts, toolName) ==
  IF Len(parts) = 2
  THEN [ok |-> TRUE,
        args |-> ObjectOf(<<<<getPositionalParamName(toolName, 0),
                              unquoteString(parts[1])>>,
                            <<getPositionalParamName(toolName, 1),
                              unquoteString(parts[2])>>>>)]
  ELSE IF Len(parts) = 1
  THEN [ok |-> TRUE,
        args |-> ObjectOf(<<<<getPositionalParamName(toolName, 0),
                              unquoteString(parts[1])>>>>)]
  ELSE [ok |-> FALSE, args |-> <<>>]

\* ok is false where the source returns null.
parseArguments(argsString, toolName) ==
  LET entries == KeyValueEntries(argsString, toolName)
      cleaned == Trim(argsString)
  IN IF entries # <<>> THEN [ok |-> TRUE, args |-> ObjectOf(entries)]
     ELSE IF \E i \in 1..Len(cleaned) : cleaned[i].k = "comma"
     THEN positionalArgs(splitArguments(cleaned), toolName)
     ELSE IF cleaned # <<>>
     THEN [ok |-> TRUE,
           args |-> ObjectOf(<<<<getPositionalParamName(toolName, 0),
                                 unquoteString(cleaned)>>>>)]
     ELSE [ok |-> FALSE, args |-> <<>>]

\* Where the arguments of the call that names toolName at token i begin and
\* end, <<0, 0>> when toolName\s*\(([^)]*)\) does not match there.  Nothing
\* is asked of what stands before the name.
CallAt(text, toolName, i) ==
  LET l == SkipSpace(text, i + 1)
      closes == {r \in (l + 1)..Len(text) : text[r].k = "rp"}
  IN IF /\ text[i] = Ident(toolName)
        /\ l <= Len(text) /\ text[l].k = "lp" /\ closes # {}
     THEN <<l + 1, Min(closes)>> ELSE <<0, 0>>

\* The argument strings of the matches of the pattern from token p on, in
\* order.
RECURSIVE CallMatches(_, _, _)
CallMatches(text, toolName, p) ==
  LET starts == {i \in p..Len(text) : CallAt(text, toolName, i)[1] # 0}
  IN IF starts = {} THEN <<>>
     ELSE LET m == CallAt(text, toolName, Min(starts))
          IN <<SubSeq(text, m[1], m[2] - 1)>> \o CallMatches(text, toolName, m[2] + 1)

\* The argument strings of the matches of the code block pattern from token
\* p on: between a fence and the next one, the last call of toolName.
RECURSIVE BlockCallMatches(_, _, _)
BlockCallMatches(text, toolName, p) ==
  LET close(f) == LET later == {g \in (f + 1)..Len(text) : text[g].k = "fence"}
                  IN IF later = {} THEN 0 ELSE Min(later)
      inside(f) == {i \in (f + 1)..(close(f) - 1) :
                      /\ CallAt(text, toolName, i)[1] # 0
                      /\ CallAt(text, toolName, i)[2] < close(f)}
      starts == {f \in p..Len(text) :
                   text[f].k = "fence" /\ close(f) # 0 /\ inside(f) # {}}
  IN IF starts = {} THEN <<>>
     ELSE LET f == Min(starts)
              i == CHOOSE x \in inside(f) : \A y \in inside(f) : y <= x
              m == CallAt(text, toolName, i)
          IN <<SubSeq(text, m[1], m[2] - 1)>>
             \o BlockCallMatches(text, toolName, close(f) + 1)

\* The calls pushed for the argument strings given.
RECURSIVE callsOf(_, _)
callsOf(argsStrings, toolName) ==
  IF argsStrings = <<>> THEN <<>>
  ELSE LET args == parseArguments(Head(argsStrings), toolName)
       IN (IF args.ok THEN <<FunctionCall(toolName, args.args)>> ELSE <<>>)
          \o callsOf(Tail(argsStrings), toolName)

extractFunctionCalls(text, toolName) ==
  callsOf(CallMatches(text, toolName, 1), toolName)
    \o callsOf(BlockCallMatches(text, toolName, 1), toolName)

RECURSIVE extractEach(_, _)
extractEach(text, names) ==
  IF names = <<>> THEN <<>>
  ELSE extractFunctionCalls(text, Head(names)) \o extractEach(text, Tail(names))

parseFunctionCallFormat(text) == extractEach(text, toolNames)

\* parseToolCalls without the two tests of calls.length === 0.
parseToolCallsAllStrategies(text) ==
  parseXMLWrappedJSON(text) \o parseJSONToolCalls(text) \o parseFunctionCallFormat(text)

parseToolCalls(text) ==
  IF parseXMLWrappedJSON(text) # <<>> THEN parseXMLWrappedJSON(text)
  ELSE IF parseJSONToolCalls(text) # <<>> THEN parseJSONToolCalls(text)
  ELSE parseFunctionCallFormat(text)

\* text.includes of the strings hasToolCalls looks for.
IncludesTag(text, kind, tag) == \E i \in 1..Len(text) : text[i] = Tok(kind, tag, "")

IncludesQuoted(text, word) ==
  \E i \in 1..Len(text) :
    \/ text[i].k \in {"key", "str"} /\ text[i].a = word
    \/ text[i].k = "kv" /\ word \in {text[i].a, text[i].b}

IncludesCallOf(text, names) ==
  \E i \in 1..(Len(text) - 1) :
    text[i].k = "ident" /\ text[i].a \in names /\ text[i + 1].k = "lp"

\* hasToolCalls if its pattern took any name before a parenthesis.
hasToolCallsAnyName(text) ==
  \/ IncludesQuoted(text, "tool")
  \/ \E i \in 1..(Len(text) - 1) : text[i].k = "ident" /\ text[i + 1].k = "lp"

hasToolCalls(text) ==
  \/ IncludesTag(text, "open", "xml") /\ IncludesTag(text, "close", "xml")
  \/ IncludesTag(text, "open", "tools") /\ IncludesTag(text, "close", "tools")
  \/ IncludesQuoted(text, "tool")
  \/ IncludesQuoted(text, "name") /\ IncludesQuoted(text, "arguments")
  \/ IncludesCallOf(text, {"write_file", "read_file"})
  \/ \E i \in 1..Len(text) :
       /\ text[i].k = "ident"
       /\ text[i].a \in {"write_file", "read_file", "list_directory",
                         "run_shell_command"}
       /\ SkipSpace(text, i + 1) <= Len(text)
       /\ text[SkipSpace(text, i + 1)].k = "lp"

\* ---------------------------------------------------- the texts given to the parser
\* A text is made of at most MaxSegments segments, each on a line of its own.
\* {"<nameKey>": "<name>", "<argsKey>": {<entries>}}
JsonCall(nameKey, name, argsKey, entries) ==
  <<LB, Key(nameKey), Str(name), Comma, Space, Key(argsKey), LB>> \o entries \o <<RB, RB>>

\* <tag>object</tag>
Tagged(tag, object) == <<Open(tag)>> \o object \o <<Close(tag)>>

\* name(arguments)
CallText(name, arguments) == <<Ident(name), LP>> \o arguments \o <<RP>>

Segments ==
  << \* 1: <xml>{"name": "write_file", "arguments": {"path": "a", "content": "b"}}</xml>
     Tagged("xml", JsonCall("name", "write_file", "arguments",
                            <<KV("path", "a"), Comma, KV("content", "b")>>)),
     \* 2: <tools> {"tool": "list_directory", "args": {"dir": "d"}} </tools>
     <<Open("tools"), Space>>
       \o JsonCall("tool", "list_directory", "args", <<KV("dir", "d")>>)
       \o <<Space, Close("tools")>>,
     \* 3: <xml>{ junk }</xml>
     Tagged("xml", <<LB, Junk, RB>>),
     \* 4: <xml>{"name": "read_file"}</xml>
     Tagged("xml", <<LB, Key("name"), Str("read_file"), RB>>),
     \* 5: <xml>{"name": "read_file", junk</xml>, the closing brace missing
     Tagged("xml", <<LB, Key("name"), Str("read_file"), Comma, Junk>>),
     \* 6: {"tool": "write_file", "args": {"path": "a"}}
     JsonCall("tool", "write_file", "args", <<KV("path", "a")>>),
     \* 7: {"tool": "read_file" junk "args": {"file": "a"}}
     <<LB, Key("tool"), Str("read_file"), Junk, Key("args"), LB, KV("file", "a"),
       RB, RB>>,
     \* 8: ```json\n{"name": "read_file", "arguments": {"file": "f"}}\n```
     <<Fence("json"), NL>>
       \o JsonCall("name", "read_file", "arguments", <<KV("file", "f")>>)
       \o <<NL, Fence("")>>,
     \* 9: write_file('a', 'b')
     CallText("write_file", <<Quoted("a"), Comma, Space, Quoted("b")>>),
     \* 10: edit_file('f', 'o', 'n')
     CallText("edit_file", <<Quoted("f"), Comma, Space, Quoted("o"), Comma, Space,
                             Quoted("n")>>),
     \* 11: read_file('f')
     CallText("read_file", <<Quoted("f")>>),
     \* 12: my_write_file('a', 'b')
     <<Word("my_")>> \o CallText("write_file", <<Quoted("a"), Comma, Space, Quoted("b")>>),
     \* 13: run_shell_command(cmd='c')
     CallText("run_shell_command", <<Word("cmd"), Eq, Quoted("c")>>),
     \* 14: please write_file now
     <<Word("please"), Space, Ident("write_file"), Space, Word("now")>>,
     \* 15: print('x')
     CallText("print", <<Quoted("x")>>),
     \* 16: ```\nlist_directory('d')\n```
     <<Fence(""), NL>> \o CallText("list_directory", <<Quoted("d")>>) \o <<NL, Fence("")>>,
     \* 17: <tools>{"name": "list_directory", "arguments": {}}</tools>
     Tagged("tools", JsonCall("name", "list_directory", "arguments", <<>>)),
     \* 18: {"x": "y"}
     <<LB, KV("x", "y"), RB>>,
     \* 19: <xml> hello
     <<Open("xml"), Space, Word("hello")>>,
     \* 20: web_search('q')
     CallText("web_search", <<Quoted("q")>>) >>

RECURSIVE TextOf(_)
\* The text of the segments chosen, a newline between two of them.
TextOf(segs) ==
  IF segs = <<>> THEN <<>>
  ELSE IF Len(segs) = 1 THEN Segments[segs[1]]
  ELSE Segments[Head(segs)] \o <<NL>> \o TextOf(Tail(segs))

SegmentChoices == UNION {[1..n -> 1..Len(Segments)] : n \in 1..MaxSegments}

hookVars == <<history, pending, isResponding, turnCancelled, activeQueryId,
              abortControllerRef, aborted, loopDetected, loopRequest, loopDisabled,
              lastQuery, quotaSwitched, toolCalls, requestQueue, calls, procs,
              clientHistory, submitted, notified, abortCalls, cancelAllCalls,
              cancelledStreams, nInputs, approval, checkpoint>>

ParserInit ==
  /\ HookInit
  /\ adapter = NoAdapter
  /\ selector = NoSelector
  /\ parser \in {[NoText EXCEPT !.segs = s, !.text = TextOf(s)] : s \in SegmentChoices}

\* parser.parseToolCalls(text)
ParseToolCalls ==
  /\ ~parser.parsed
  /\ parser' = [parser EXCEPT !.parsed = TRUE, !.calls = parseToolCalls(parser.text)]
  /\ UNCHANGED <<hookVars, adapter, selector>>

\* parser.hasToolCalls(text)
HasToolCalls ==
  /\ ~parser.checked
  /\ parser' = [parser EXCEPT !.checked = TRUE, !.has = hasToolCalls(parser.text)]
  /\ UNCHANGED <<hookVars, adapter, selector>>

NextParser == ParseToolCalls \/ HasToolCalls

SpecParser == ParserInit /\ [][NextParser]_vars

\* ------------------------------------------- the stream of the content generator
\* generateContentStream of OllamaContentGenerator
\* (src/packages/core/src/adapters/ollamaContentGenerator.ts, lines 420-610).
\* The body of the response is newline-delimited JSON.  A line of the wire is
\* one record; reader.read() delivers it whole, or its first part in one
\* chunk and the rest in a later one.

\* The complete lines a stream delivers.
MaxLines == 3

\* One line of the wire by what JSON.parse makes of it: white space
\* ("blank"), no JSON ("malformed"), an object with an error field ("error"),
\* an object without message ("nomessage"), or a record with a message.
Line(kind, content, done, tool_calls, error) ==
  [kind |-> kind, content |-> content, done |-> done, tool_calls |-> tool_calls,
   error |-> error]

NoLine == Line("none", <<>>, FALSE, <<>>, "")

\* A tool call of message.tool_calls: function.arguments is the object the
\* tokens write, or (str) a string holding the tokens.
NativeCall(name, str, toks) == [name |-> name, str |-> str, toks |-> toks]

\* What the chunks are made of: a line or a part of one, and the newline.
Part(k, line) == [k |-> k, line |-> line]
LineEnd == Part("nl", NoLine)

\* request.model || this.config.model || 'llama3.2'
modelName(requestModel, configModel) ==
  IF requestModel # "" THEN requestModel
  ELSE IF configModel # "" THEN configModel
  ELSE "llama3.2"

\* ` (model: ${ollamaRequest.model})` or ''
modelInfo(model) == IF model # "" THEN <<" (model: ", model, ")">> ELSE <<>>

\* errorMsg.includes(needle); an error message of the model holds no text
\* around the needle.
Includes(errorMsg, needle) == errorMsg = needle

\* The message of the Error thrown for a record with an error field, as the
\* pieces the template joins.
errorOfRecord(model, errorMsg) ==
  IF Includes(errorMsg, "unexpected EOF") \/ Includes(errorMsg, "model not found")
  THEN <<"Ollama model error">> \o modelInfo(model)
         \o <<": ", errorMsg, "\n\nThis usually means:", "ollama pull ", model>>
  ELSE <<"Ollama error">> \o modelInfo(model) \o <<": ", errorMsg>>

\* e.message.startsWith('Ollama error:')
startsWithOllamaError(message) ==
  /\ Len(message) >= 2
  /\ message[1] = "Ollama error"
  /\ message[2] = ": "

\* The message of the SyntaxError of JSON.parse.
JsonSyntaxError == <<"Unexpected token">>

\* buffer.split('\n'): the lines before each newline, and what follows the
\* last newline (lines.pop() || '').
RECURSIVE splitBuffer(_, _, _)
splitBuffer(toks, cur, acc) ==
  IF toks = <<>> THEN [lines |-> acc, buffer |-> cur]
  ELSE IF Head(toks).k = "nl" THEN splitBuffer(Tail(toks), <<>>, Append(acc, cur))
  ELSE splitBuffer(Tail(toks), Append(cur, Head(toks)), acc)

\* line.trim()
trimLine(line) == SelectSeq(line, LAMBDA p : p.line.kind # "blank")

\* JSON.parse(trimmed): the record of a whole line, or of the first part of
\* a line followed by the rest of the same line; a SyntaxError otherwise.
parseLine(trimmed) ==
  LET joined ==
        IF Len(trimmed) = 1 /\ trimmed[1].k = "whole" THEN trimmed[1].line
        ELSE IF /\ Len(trimmed) = 2
                /\ trimmed[1].k = "first" /\ trimmed[2].k = "rest"
                /\ trimmed[1].line = trimmed[2].line
        THEN trimmed[1].line
        ELSE Line("malformed", <<>>, FALSE, <<>>, "")
  IN joined

\* JSON.parse of the string arguments of a native tool call: an object of
\* string members, or a SyntaxError.
parseNativeArguments(toks) ==
  LET t == SelectSeq(toks, LAMBDA x : x.k # "ws")
  IN IF Len(t) < 2 \/ t[1].k # "lb" THEN [ok |-> FALSE, entries |-> <<>>]
     ELSE LET r == ParseArgsObject(t, 2)
          IN IF r.ok /\ r.next = Len(t) + 1 THEN [ok |-> TRUE, entries |-> r.entries]
             ELSE [ok |-> FALSE, entries |-> <<>>]

\* parsed.message.tool_calls.map(...): string arguments are parsed, {} when
\* they do not parse.
nativeFunctionCall(tc) ==
  IF tc.str
  THEN LET r == parseNativeArguments(tc.toks)
       IN FunctionCall(tc.name, IF r.ok THEN ObjectOf(r.entries) ELSE ObjectOf(<<>>))
  ELSE FunctionCall(tc.name, ObjectOf(parseNativeArguments(tc.toks).entries))

nativeFunctionCalls(tool_calls) ==
  [i \in 1..Len(tool_calls) |-> nativeFunctionCall(tool_calls[i])]

\* A chunk the generator yields.
Chunk(text, functionCalls, done) ==
  [text |-> text, functionCalls |-> functionCalls, done |-> done]

\* The function calls of a record, were the text protocol applied to the
\* content of the record alone.
functionCallsOfRecordAlone(parsed, accumulatedText) ==
  IF ~parsed.done THEN <<>>
  ELSE IF Len(parsed.tool_calls) > 0 THEN nativeFunctionCalls(parsed.tool_calls)
  ELSE parseToolCalls(parsed.content)

\* The function calls of a record (lines 523-553): none before done; the
\* native tool calls when there are some; else those of the accumulated text.
functionCallsOf(parsed, accumulatedText) ==
  IF ~parsed.done THEN <<>>
  ELSE IF Len(parsed.tool_calls) > 0 THEN nativeFunctionCalls(parsed.tool_calls)
  ELSE parseToolCalls(accumulatedText)

\* A catch of the line that rethrows whatever it caught.
catchLineRethrowAll(s, message) ==
  [s EXCEPT !.status = "thrown", !.thrown = message]

\* The catch of one line (lines 578-588): an error whose message starts
\* with 'Ollama error:' is thrown again, any other is logged.
catchLine(s, message) ==
  IF startsWithOllamaError(message)
  THEN [s EXCEPT !.status = "thrown", !.thrown = message]
  ELSE [s EXCEPT !.logged = Append(@, message)]

\* The body of the loop over the lines (lines 477-589) for one line; s is
\* the generator.  Nothing runs once the generator has returned or thrown.
processLine(s, line) ==
  LET trimmed == trimLine(line)
      parsed == parseLine(trimmed)
      text == s.accumulatedText \o parsed.content
  IN IF s.status # "running" THEN s
     ELSE IF trimmed = <<>> THEN s
     ELSE IF parsed.kind = "malformed" THEN catchLine(s, JsonSyntaxError)
     ELSE IF parsed.kind = "error"
     THEN catchLine(s, errorOfRecord(s.model, parsed.error))
     ELSE IF parsed.kind = "nomessage" THEN s
     ELSE [s EXCEPT !.accumulatedText = text,
                    !.yielded = Append(@, Chunk(parsed.content,
                                                functionCallsOf(parsed, text),
                                                parsed.done)),
                    !.status = IF parsed.done THEN "returned" ELSE "running"]

RECURSIVE processLines(_, _)
processLines(s, lines) ==
  IF lines = <<>> THEN s
  ELSE processLines(processLine(s, Head(lines)), Tail(lines))

\* A loop over reader.read() whose buffer is only the chunk just read.
readChunkAlone(s, chunk) ==
  LET split == splitBuffer(chunk, <<>>, <<>>)
  IN processLines([s EXCEPT !.buffer = split.buffer, !.lines = @ \o split.lines],
                  split.lines)

\* One turn of the loop over reader.read() (lines 470-589) for a chunk.
readChunk(s, chunk) ==
  LET split == splitBuffer(s.buffer \o chunk, <<>>, <<>>)
  IN processLines([s EXCEPT !.buffer = split.buffer, !.lines = @ \o split.lines],
                  split.lines)

\* reader.read() answers done: the loop is left (line 471).
readDone(s) == [s EXCEPT !.status = "ended"]

\* reader.read() rejects: the error leaves the generator.
readFails(s) == [s EXCEPT !.status = "thrown", !.thrown = <<"read failed">>]

\* ------------------------------------------------ the lines of the streams
\* The first and the second half of <xml>{"name": "write_file", ...}</xml>.
XmlFirst == SubSeq(Segments[1], 1, 6)
XmlRest == SubSeq(Segments[1], 7, Len(Segments[1]))

Record(content, done, tool_calls) == Line("record", content, done, tool_calls, "")

NativeCalls ==
  { <<NativeCall("read_file", FALSE, <<LB, KV("file_path", "f"), RB>>)>>,
    <<NativeCall("read_file", TRUE, <<LB, KV("file_path", "f"), RB>>)>>,
    <<NativeCall("read_file", TRUE, <<LB, Junk>>)>> }

StreamLines ==
  { Line("blank", <<>>, FALSE, <<>>, ""),
    Line("malformed", <<>>, FALSE, <<>>, ""),
    Line("nomessage", <<>>, FALSE, <<>>, ""),
    Line("nomessage", <<>>, TRUE, <<>>, ""),
    Line("error", <<>>, FALSE, <<>>, "model not found"),
    Line("error", <<>>, FALSE, <<>>, "out of memory") }
    \cup { Record(c, FALSE, <<>>) : c \in {<<Word("hi")>>, XmlFirst, XmlRest} }
    \cup { Record(c, TRUE, <<>>) : c \in {<<>>, <<Word("hi")>>, XmlRest} }
    \cup { Record(<<>>, TRUE, n) : n \in NativeCalls }
    \cup { Record(<<>>, FALSE, <<NativeCall("read_file", FALSE,
                                            <<LB, KV("file_path", "f"), RB>>)>>) }

\* The line that comes in more than one chunk.
SplitLine == Record(XmlRest, TRUE, <<>>)

\* What one reader.read() delivers: one or two lines; the split line
\* without its newline, or its first part; after one of these, the newline,
\* or the rest of the split line and the newline.
WholeChunks ==
  { <<Part("whole", l), LineEnd>> : l \in StreamLines }
    \cup { <<Part("whole", l[1]), LineEnd, Part("whole", l[2]), LineEnd>> :
             l \in StreamLines \X StreamLines }
    \cup { <<Part("first", SplitLine)>>, <<Part("whole", SplitLine)>> }

RestChunks == { <<Part("rest", SplitLine), LineEnd>>, <<LineEnd>> }

Chunks == WholeChunks \cup RestChunks

LineEnds(chunk) == Len(SelectSeq(chunk, LAMBDA p : p.k = "nl"))

\* The model of the request of the stream.
StreamInit ==
  /\ HookInit
  /\ parser = NoText
  /\ selector = NoSelector
  /\ adapter \in {[NoAdapter EXCEPT !.stream.model = modelName(r, c)] :
                    r \in {"", "m"}, c \in {"", "c"}}

\* The reader delivers a chunk.
ReadChunk(chunk) ==
  /\ adapter.stream.status = "running"
  /\ Len(adapter.stream.lines) + LineEnds(chunk) <= MaxLines
  /\ chunk \in WholeChunks <=> adapter.stream.buffer = <<>>
  /\ adapter' = [adapter EXCEPT !.stream = [readChunk(@, chunk) EXCEPT
                                              !.read = Append(@, chunk)]]
  /\ UNCHANGED <<hookVars, parser, selector>>

\* The body of the response ends.
ReadDone ==
  /\ adapter.stream.status = "running"
  /\ adapter' = [adapter EXCEPT !.stream = readDone(@)]
  /\ UNCHANGED <<hookVars, parser, selector>>

\* The connection breaks while the body is read.
ReadFails ==
  /\ adapter.stream.status = "running"
  /\ adapter' = [adapter EXCEPT !.stream = readFails(@)]
  /\ UNCHANGED <<hookVars, parser, selector>>

NextStream == (\E chunk \in Chunks : ReadChunk(chunk)) \/ ReadDone \/ ReadFails

SpecStream == StreamInit /\ [][NextStream]_vars

\* ------------------------------------------ the requests of the content generator
\* generateContent and generateContentStream up to the answer of the backend
\* (ollamaContentGenerator.ts, lines 82-198 and 379-458, 597-609).  Each
\* invocation runs to its next await on the network: the probe of the
\* capabilities (/api/show) when the model is not cached, then the chat
\* request (/api/chat).

\* The invocations of one run.
MaxRequests == 2

\* this.config.model and this.config.baseUrl
ConfigModel == "c"
BaseUrl == "http://localhost:11434"

Error(name, message) == [name |-> name, message |-> message]
NoError == Error("", <<>>)

\* One element of request.tools: with functionDeclarations (declared) or
\* without.
Tool(declared, functions) == [declared |-> declared, functions |-> functions]

\* request: model ('' is undefined), tools and systemInstruction (given or
\* undefined), contents.
Request(model, toolsGiven, tools, systemGiven, parts) ==
  [model |-> model, tools |-> [given |-> toolsGiven, list |-> tools],
   systemInstruction |-> [given |-> systemGiven, parts |-> parts],
   contents |-> <<[role |-> "user", parts |-> <<"q">>]>>]

Message(role, content) == [role |-> role, content |-> content]

\* parts.map(...).join('\n') for parts that are texts.
RECURSIVE partsToText(_)
partsToText(parts) ==
  IF parts = <<>> THEN <<>>
  ELSE IF Len(parts) = 1 THEN <<parts[1]>>
  ELSE <<parts[1], "\n">> \o partsToText(Tail(parts))

\* The sections of buildToolSchemas for function declarations.
RECURSIVE functionSections(_)
functionSections(functions) ==
  IF functions = <<>> THEN <<>>
  ELSE <<"### ", Head(functions), "**Usage:**">> \o functionSections(Tail(functions))

RECURSIVE schemaSections(_)
schemaSections(tools) ==
  IF tools = <<>> THEN <<>>
  ELSE (IF Head(tools).declared THEN functionSections(Head(tools).functions)
        ELSE <<>>)
       \o schemaSections(Tail(tools))

\* buildToolSchemas(tools): the instructions, then one section for each
\* function declaration.
buildToolSchemas(tools) ==
  <<"## TOOL USAGE INSTRUCTIONS", "## AVAILABLE TOOLS">> \o schemaSections(tools)

\* convertToNativeTools(tools): one entry for each function declaration.
RECURSIVE convertToNativeTools(_)
convertToNativeTools(tools) ==
  IF tools = <<>> THEN <<>>
  ELSE (IF Head(tools).declared THEN Head(tools).functions ELSE <<>>)
       \o convertToNativeTools(Tail(tools))

\* request.tools && Array.isArray(request.tools) && request.tools.length > 0
hasToolsOf(request) == request.tools.given /\ Len(request.tools.list) > 0

\* info.capabilities?.includes('tools') ?? false
supportsNativeTools(capabilities) == "tools" \in capabilities

\* The tool schemas of a conversion that does not look at the capability.
toolSchemasAlways(request, hasNativeTools) ==
  IF hasToolsOf(request) THEN buildToolSchemas(request.tools.list) ELSE <<>>

\* toolSchemas (lines 135-138); <<>> is ''.
toolSchemasOf(request, hasNativeTools) ==
  IF hasToolsOf(request) /\ ~hasNativeTools
  THEN buildToolSchemas(request.tools.list)
  ELSE <<>>

\* The messages of the contents (lines 164-172).
contentMessages(contents) ==
  [i \in 1..Len(contents) |->
     Message(IF contents[i].role = "model" THEN "assistant" ELSE "user",
             partsToText(contents[i].parts))]

NoOllamaRequest == [model |-> "", messages |-> <<>>,
                    tools |-> [given |-> FALSE, list |-> <<>>]]

\* convertToOllamaFormat(request) once the capabilities of the model are
\* known (lines 127, 130-198).
convertToOllamaFormat(request, capabilities) ==
  LET hasNativeTools == supportsNativeTools(capabilities)
      hasTools == hasToolsOf(request)
      toolSchemas == toolSchemasOf(request, hasNativeTools)
      system ==
        IF request.systemInstruction.given
        THEN <<Message("system",
                       partsToText(request.systemInstruction.parts)
                         \o (IF toolSchemas # <<>>
                             THEN <<"\n\n">> \o toolSchemas ELSE <<>>))>>
        ELSE IF toolSchemas # <<>> THEN <<Message("system", toolSchemas)>>
        ELSE <<>>
  IN [model |-> modelName(request.model, ConfigModel),
      messages |-> system \o contentMessages(request.contents),
      tools |-> IF hasNativeTools /\ hasTools
                THEN [given |-> TRUE,
                      list |-> convertToNativeTools(request.tools.list)]
                ELSE [given |-> FALSE, list |-> <<>>]]

\* One call of generateContent or generateContentStream: where it is
\* ("probe": awaiting /api/show; "chat": awaiting /api/chat; "done"),
\* whether it sent a probe, the answers getModelCapabilities had given for
\* its model when it began (known), the capabilities it got, the request it
\* sent, the chat requests it sent, what /api/chat answered, and how it
\* ended.
Invocation(method, request, known) ==
  [method |-> method, request |-> request,
   model |-> modelName(request.model, ConfigModel), pc |-> "probe",
   probed |-> FALSE, known |-> known, capabilities |-> {},
   ollamaRequest |-> NoOllamaRequest, chatFetches |-> 0, answer |-> "",
   result |-> "pending", error |-> NoError]

\* The answers getModelCapabilities has given for the model.
Completed(a, model) ==
  IF model \in DOMAIN a.completed THEN a.completed[model] ELSE <<>>

\* getModelCapabilities has its answer: the request is converted and sent
\* to /api/chat (lines 130-198, 383-396, 424-437).
sendChat(a, i, capabilities) ==
  LET inv == a.invocations[i]
  IN [a EXCEPT
        !.completed = (inv.model :> Append(Completed(a, inv.model), capabilities)) @@ @,
        !.invocations[i] =
           [inv EXCEPT !.pc = "chat", !.capabilities = capabilities,
                       !.ollamaRequest = convertToOllamaFormat(inv.request, capabilities),
                       !.chatFetches = @ + 1]]

\* generateContent(request) or generateContentStream(request) up to its
\* first request on the network: the cached capabilities are used when
\* there are some (lines 84-86), else /api/show is asked (line 89).
invoke(a, method, request) ==
  LET model == modelName(request.model, ConfigModel)
      i == Len(a.invocations) + 1
      begun == [a EXCEPT !.invocations =
                  Append(@, Invocation(method, request, Completed(a, model)))]
  IN IF model \in DOMAIN a.modelCapabilities
     THEN sendChat(begun, i, a.modelCapabilities[model])
     ELSE [begun EXCEPT !.invocations[i].probed = TRUE]

\* The capabilities getModelCapabilities makes of the answer of /api/show
\* (lines 95-111): data.capabilities || [] for an OK answer whose body
\* parses, [] for any other.
capabilitiesOf(outcome) ==
  IF outcome.kind = "ok" /\ outcome.has THEN outcome.capabilities ELSE {}

\* /api/show has answered: the capabilities are cached (lines 100, 110).
probeAnswered(a, i, outcome) ==
  LET model == a.invocations[i].model
      capabilities == capabilitiesOf(outcome)
      cached == [a EXCEPT !.modelCapabilities = (model :> capabilities) @@ @]
  IN sendChat(cached, i, capabilities)

\* A catch that takes every error for a connection failure.
catchFetchAlwaysCannotConnect(error) ==
  Error("Error", <<"Cannot connect to Ollama server at ", BaseUrl, "Please check:">>)

\* The catch around the chat request (lines 405-417, 597-609).
catchFetch(error) ==
  IF error.name = "TypeError" /\ error.message = <<"fetch failed">>
  THEN Error("Error", <<"Cannot connect to Ollama server at ", BaseUrl, "Please check:">>)
  ELSE error

\* What the try of generateContent throws for an answer of /api/chat
\* (lines 387-404); NoError when it returns.
thrownByGenerateContent(outcome) ==
  CASE outcome = "fetch failed" -> Error("TypeError", <<"fetch failed">>)
    [] outcome = "timeout" -> Error("TimeoutError", <<"The operation was aborted due to timeout">>)
    [] outcome = "status" -> Error("Error", <<"Ollama API Error: ", "500", " - ", "body">>)
    [] outcome = "malformed" -> Error("SyntaxError", JsonSyntaxError)
    [] outcome = "nomessage" ->
         Error("TypeError", <<"Cannot read properties of undefined (reading 'content')">>)
    [] OTHER -> NoError

\* What the try of generateContentStream throws (lines 428-458); NoError
\* when it returns the generator.
thrownByGenerateContentStream(model, outcome) ==
  CASE outcome = "fetch failed" -> Error("TypeError", <<"fetch failed">>)
    [] outcome = "status" ->
         Error("Error", <<"Ollama API Streaming Error">> \o modelInfo(model)
                          \o <<": ", "500", " - ", "body">>)
    [] outcome = "nobody" -> Error("Error", <<"Streaming response body is empty!">>)
    [] OTHER -> NoError

\* /api/chat has answered or the request has failed.
chatAnswered(a, i, outcome) ==
  LET inv == a.invocations[i]
      thrown == IF inv.method = "generateContent"
                THEN thrownByGenerateContent(outcome)
                ELSE thrownByGenerateContentStream(inv.model, outcome)
  IN [a EXCEPT !.invocations[i] =
        IF thrown = NoError
        THEN [inv EXCEPT !.pc = "done", !.answer = outcome, !.result = "returned"]
        ELSE [inv EXCEPT !.pc = "done", !.answer = outcome, !.result = "thrown",
                         !.error = catchFetch(thrown)]]

\* ------------------------------------------------ the requests given
Methods == {"generateContent", "generateContentStream"}

ToolLists ==
  { <<>>, <<Tool(TRUE, <<"read_file">>)>>, <<Tool(FALSE, <<>>)>> }

Requests ==
  { Request(m, FALSE, <<>>, s, <<"be brief">>) : m \in {"", "m"}, s \in BOOLEAN }
    \cup { Request(m, TRUE, l, s, <<"be brief">>) :
             m \in {"", "m"}, l \in ToolLists, s \in BOOLEAN }

\* The answers of /api/show: OK with capabilities, OK without the field,
\* a status that is not OK, no connection, a body that is no JSON.
Outcome(kind, has, capabilities) ==
  [kind |-> kind, has |-> has, capabilities |-> capabilities]

ProbeOutcomes ==
  { Outcome("ok", TRUE, {"completion", "tools"}), Outcome("ok", TRUE, {"completion"}),
    Outcome("ok", FALSE, {}), Outcome("status", FALSE, {}),
    Outcome("fetch failed", FALSE, {}), Outcome("malformed", FALSE, {}) }

\* The answers of /api/chat.
ChatOutcomes(method) ==
  IF method = "generateContent"
  THEN {"fetch failed", "timeout", "status", "malformed", "nomessage", "ok"}
  ELSE {"fetch failed", "status", "nobody", "ok"}

RequestInit ==
  HookInit /\ parser = NoText /\ adapter = NoAdapter /\ selector = NoSelector

\* generateContent(request) or generateContentStream(request) is called.
Invoke(method, request) ==
  /\ Len(adapter.invocations) < MaxRequests
  /\ adapter' = invoke(adapter, method, request)
  /\ UNCHANGED <<hookVars, parser, selector>>

\* /api/show answers invocation i.
ProbeAnswer(i, outcome) ==
  /\ adapter.invocations[i].pc = "probe"
  /\ adapter' = probeAnswered(adapter, i, outcome)
  /\ UNCHANGED <<hookVars, parser, selector>>

\* /api/chat answers invocation i.
ChatAnswer(i, outcome) ==
  /\ adapter.invocations[i].pc = "chat"
  /\ outcome \in ChatOutcomes(adapter.invocations[i].method)
  /\ adapter' = chatAnswered(adapter, i, outcome)
  /\ UNCHANGED <<hookVars, parser, selector>>

AllChatOutcomes == ChatOutcomes("generateContent") \cup ChatOutcomes("generateContentStream")

NextRequest ==
  \/ \E method \in Methods, request \in Requests : Invoke(method, request)
  \/ \E i \in 1..Len(adapter.invocations), outcome \in ProbeOutcomes :
       ProbeAnswer(i, outcome)
  \/ \E i \in 1..Len(adapter.invocations), outcome \in AllChatOutcomes :
       ChatAnswer(i, outcome)

SpecRequest == RequestInit /\ [][NextRequest]_vars

\* ------------------------------------------------ the capability cache
\* The same generator asked for more contents, by requests without tools:
\* what the invocations get from getModelCapabilities.

\* The invocations of one run.
MaxPlainRequests == 3

PlainRequests == { Request(m, FALSE, <<>>, FALSE, <<>>) : m \in {"", "m"} }

PlainProbeOutcomes ==
  { Outcome("ok", TRUE, {"completion", "tools"}), Outcome("ok", TRUE, {"completion"}),
    Outcome("status", FALSE, {}), Outcome("fetch failed", FALSE, {}) }

\* generateContent(request) is called.
InvokePlain(request) ==
  /\ Len(adapter.invocations) < MaxPlainRequests
  /\ adapter' = invoke(adapter, "generateContent", request)
  /\ UNCHANGED <<hookVars, parser, selector>>

NextCapabilities ==
  \/ \E request \in PlainRequests : InvokePlain(request)
  \/ \E i \in 1..Len(adapter.invocations), outcome \in PlainProbeOutcomes :
       ProbeAnswer(i, outcome)
  \/ \E i \in 1..Len(adapter.invocations) : ChatAnswer(i, "ok")

SpecCapabilities == RequestInit /\ [][NextCapabilities]_vars

\* ------------------------------------------------------------- properties
CallIds == 1..Len(calls)

Range(f) == {f[i] : i \in DOMAIN f}

\* The call ids of a batch as the scheduler reported it.
IdsOf(entry) == [i \in 1..Len(entry) |-> entry[i].q]

\* The batch of query q: the calls requested by it, in request order.
CallsOfQuery(q) ==
  SelectSeq([i \in 1..Len(calls) |-> i], LAMBDA id : calls[id].query = q)

SchedulerIdle == toolCalls = <<>> /\ requestQueue = <<>>

\* C1: the completion callback is invoked exactly once for each batch and only
\* when every call of the batch is terminal: every invocation carries all the
\* calls of one batch (the calls one stream or one slash command requested), in
\* request order and each in a terminal status; no batch is reported twice;
\* and when the scheduler has nothing left, every batch has been reported.
C1_BatchCompleteOnce ==
  /\ \A i \in 1..Len(notified) :
       /\ notified[i] # <<>>
       /\ IdsOf(notified[i]) = CallsOfQuery(calls[notified[i][1].q].query)
       /\ \A k \in 1..Len(notified[i]) : notified[i][k].v \in TerminalStatuses
  /\ \A i, j \in 1..Len(notified) :
       i # j => Range(IdsOf(notified[i])) \cap Range(IdsOf(notified[j])) = {}
  /\ SchedulerIdle =>
       \A id \in CallIds : \E i \in 1..Len(notified) : id \in Range(IdsOf(notified[i]))

\* A batch of two calls that ended differently has been reported.
C1_Witness ==
  \E i \in 1..Len(notified) :
    /\ Len(notified[i]) = 2
    /\ notified[i][1].v = "error"
    /\ notified[i][2].v = "success"

\* The model-initiated calls among ids, in order.
ModelIds(ids) == SelectSeq(ids, LAMBDA id : ~calls[id].client)

Continuations == {q \in 1..Len(procs) : procs[q].kind = "continuation"}

\* The calls whose results the continuation q carries.
CallsIn(q) == {procs[q].query.parts[k].q : k \in 1..Len(procs[q].query.parts)}

\* C2: a continuation carrying tool results is submitted only when every call
\* of the batch is terminal: for every call whose result a continuation
\* carries, every call requested together with it is in a terminal status.
C2_NoPartialResubmission ==
  \A q \in Continuations :
    /\ CallsIn(q) # {}
    /\ \A id \in CallsIn(q) :
         \A c \in Range(CallsOfQuery(calls[id].query)) :
           calls[c].status \in TerminalStatuses

\* A continuation carries the results of a batch of two calls.
C2_Witness ==
  \E q \in Continuations : Cardinality(CallsIn(q)) = 2

\* This step reports the tracked batch to onComplete.
Reports == Len(notified') = Len(notified) + 1

AllCancelled(ids) == \A i \in 1..Len(ids) : calls[ids[i]].status = "cancelled"

\* C3: when every model-initiated call of the batch reported is cancelled, the
\* step submits no continuation (no submitQuery invocation is added), gives
\* the calls to markToolsAsSubmitted and leaves isResponding false.
C3_AllCancelledEndsLocally ==
  [][(Reports /\ ModelIds(toolCalls) # <<>> /\ AllCancelled(ModelIds(toolCalls)))
       => /\ procs' = procs
          /\ Range(ModelIds(toolCalls)) \subseteq submitted'
          /\ isResponding' = FALSE]_vars

\* A batch of model-initiated calls, all cancelled, has been reported.
C3_Witness ==
  \E i \in 1..Len(notified) :
    /\ \A k \in 1..Len(notified[i]) :
         notified[i][k].v = "cancelled" /\ ~calls[notified[i][k].q].client
    /\ Range(IdsOf(notified[i])) \subseteq submitted
    /\ ~isResponding

\* The parts of the continuation just submitted are those of the calls ids, in
\* order, each call's parts once: the parts of a call are its response parts,
\* no part is of another call, and calls follow each other in request order
\* (call ids are given in request order).
CarriesExactly(ids) ==
  LET q == Len(procs')
      parts == procs'[q].query.parts
  IN /\ Len(procs') = Len(procs) + 1
     /\ procs'[q].kind = "continuation"
     /\ procs'[q].phase = "stream"
     /\ \A i \in 1..Len(ids) :
          SelectSeq(parts, LAMBDA p : p.q = ids[i]) = ResponseParts(ids[i], Cur)
     /\ \A k \in 1..Len(parts) : parts[k].q \in Range(ids)
     /\ \A k, l \in 1..Len(parts) : k < l => parts[k].q <= parts[l].q

\* C4, amended: when at least one model-initiated call of the batch reported
\* is not cancelled and the model was not switched because of a quota error,
\* exactly one continuation is submitted and its parts are the response parts
\* of every model-initiated call of the batch, failed and cancelled ones
\* included, in request order, each once.
C4_OneContinuationUnlessQuotaSwitch ==
  [][(Reports /\ ~AllCancelled(ModelIds(toolCalls)) /\ ~quotaSwitched)
       => CarriesExactly(ModelIds(toolCalls))]_vars

\* C4 as stated: the same without the condition on the quota switch.
C4_OneContinuation ==
  [][(Reports /\ ~AllCancelled(ModelIds(toolCalls)))
       => CarriesExactly(ModelIds(toolCalls))]_vars

\* A continuation carries the results of a success and of a failure.
C4_Witness ==
  \E q \in Continuations :
    /\ procs[q].phase = "stream"
    /\ \E k, l \in 1..Len(procs[q].query.parts) :
         /\ procs[q].query.parts[k].v = "error"
         /\ procs[q].query.parts[l].v = "output"

AssistantTypes == {"ollama", "ollama_content"}

\* The content tokens the user sees: those of the assistant items of the
\* history and of the pending item.
VisibleTokens ==
  UNION {Range(history[i].text) :
         i \in {j \in 1..Len(history) : history[j].type \in AssistantTypes}}
    \cup (IF pending.type \in AssistantTypes THEN Range(pending.text) ELSE {})

\* This step is a cancelOngoingRequest that takes effect.
Cancels == abortCalls' = abortCalls + 1

\* C5 as stated: a cancellation that takes effect leaves no tracked call
\* awaiting approval, scheduled or executing, and from then on no content of a
\* stream that was being consumed at that moment becomes visible, in the
\* history or in the pending item, whatever comes later.
C5_NoContentAfterCancel ==
  [][/\ Cancels =>
          \A id \in TrackedIds(Cur) : calls'[id].status \in TerminalStatuses
     /\ \A t \in VisibleTokens' \ VisibleTokens : t.q \notin cancelledStreams]_vars

\* C6 as stated: a user query submitted while the engine is Responding or
\* WaitingForConfirmation sends nothing, schedules nothing and adds nothing
\* (only the query id ref differs), and no two streams are consumed at once.
C6_SingleActiveTurn ==
  /\ streamingState(Cur) \in ActiveStates =>
       \A slash \in {"none", "schedule_tool", "handled"} :
         submitQuery(Cur, "user", StringQuery, FALSE, slash)
           = [Cur EXCEPT !.activeQueryId = RejectedQueryId]
  /\ Cardinality(ActiveStreams(Cur)) <= 1

\* The tool names asked for by the ToolCallRequest events among evs, in order.
Requested(evs) ==
  LET asks == SelectSeq(evs, LAMBDA ev : ev.type = "ToolCallRequest")
  IN [i \in 1..Len(asks) |-> asks[i].v]

NamesOf(ids) == [i \in 1..Len(ids) |-> calls[ids[i]].name]

Streamed == {q \in 1..Len(procs) : procs[q].phase \in {"stream", "done", "thrown"}}

\* C7: a stream gives its tool call requests to the scheduler at most once;
\* while it is consumed it has given none, so none of its tools exists and no
\* continuation carries one; once it has ended it has given all the requests
\* received, in arrival order, in one call, and has made no call when it
\* received none.
C7_ScheduledOnceAfterStream ==
  \A q \in Streamed :
    /\ Len(procs[q].sched) <= 1
    /\ procs[q].phase = "stream" =>
         procs[q].sched = <<>> /\ CallsOfQuery(q) = <<>>
    /\ procs[q].phase = "thrown" => procs[q].sched = <<>>
    /\ procs[q].phase = "done" =>
         IF Requested(procs[q].evs) = <<>> THEN procs[q].sched = <<>>
         ELSE /\ Len(procs[q].sched) = 1
              /\ NamesOf(procs[q].sched[1]) = Requested(procs[q].evs)
              /\ procs[q].sched[1] = CallsOfQuery(q)

\* A stream has ended after two requests for different tools.
C7_Witness ==
  \E q \in Streamed :
    /\ procs[q].phase = "done"
    /\ Len(procs[q].sched) = 1
    /\ NamesOf(procs[q].sched[1]) = <<"write_file", "no_such_tool">>

\* C8 as stated: once the loop has handled an Error or a UserCancelled event
\* of a stream the pending text is in the history and the loop handles no
\* later event of that stream.
C8_NothingAfterErrorOrCancel ==
  \A q \in Streamed :
    \A i \in 1..Len(procs[q].evs) :
      procs[q].evs[i].type \in {"Error", "UserCancelled"} => i = Len(procs[q].evs)

\* C9: cancelling twice is cancelling once: a cancelOngoingRequest after one
\* that took effect, with no submission in between, changes nothing (no
\* abort, no cancelAllToolCalls, no history item).
C9_CancelIdempotent ==
  /\ cancelOngoingRequest(cancelOngoingRequest(Cur)) = cancelOngoingRequest(Cur)
  /\ turnCancelled => cancelOngoingRequest(Cur) = Cur

\* The turn is cancelled and the engine is still active, with a pending item
\* flushed and a tool cancelled by the first cancellation.
C9_Witness ==
  /\ turnCancelled
  /\ streamingState(Cur) \in ActiveStates
  /\ abortCalls = 1
  /\ cancelAllCalls = 1

\* This step handles a LoopDetected event of stream q.
HandlesLoopDetected(q) ==
  /\ Len(procs') = Len(procs)
  /\ Len(procs'[q].evs) = Len(procs[q].evs) + 1
  /\ procs'[q].evs[Len(procs'[q].evs)].type = "LoopDetected"

NewProcs == (Len(procs) + 1)..Len(procs')

\* C11 as stated: while the loop decision request is open no continuation and
\* no retry is submitted; the decision "keep" submits nothing and the decision
\* "disable" disables loop detection and resubmits the last query, once.
C11_NoRequestBeforeLoopDecision ==
  [][/\ (loopRequest /\ loopRequest') =>
          \A q \in NewProcs : procs'[q].kind \notin {"continuation", "retry"}
     /\ (loopRequest /\ ~loopRequest') =>
          \/ procs' = procs /\ loopDisabled' = loopDisabled
          \/ /\ loopDisabled'
             /\ Len(procs') = Len(procs) + 1
             /\ procs'[Len(procs')].kind = "retry"
             /\ procs'[Len(procs')].query = lastQuery]_vars

\* The client-initiated calls among ids, in order.
ClientIds(ids) == SelectSeq(ids, LAMBDA id : calls[id].client)

\* C12: no request to the model carries a part of a client-initiated call;
\* the step that reports a batch gives its client-initiated calls to
\* markToolsAsSubmitted, and submits nothing when the batch has no other call.
C12_ClientCallsBypassModel ==
  /\ [](\A q \in 1..Len(procs) : \A id \in CallsIn(q) : ~calls[id].client)
  /\ [][Reports =>
          /\ Range(ClientIds(toolCalls)) \subseteq submitted'
          /\ ModelIds(toolCalls) = <<>> => procs' = procs]_vars

\* A batch made of a client-initiated call has been reported and the call is
\* marked submitted.
C12_Witness ==
  \E i \in 1..Len(notified) :
    /\ calls[notified[i][1].q].client
    /\ notified[i][1].v = "success"
    /\ notified[i][1].q \in submitted

RECURSIVE AssistantText(_)
\* The texts of the assistant items of the history h, one after the other.
AssistantText(h) ==
  IF h = <<>> THEN <<>>
  ELSE (IF Head(h).type \in AssistantTypes THEN Head(h).text ELSE <<>>)
       \o AssistantText(Tail(h))

\* The assistant text on display: the flushed items, then the pending one.
VisibleText ==
  AssistantText(history)
    \o (IF pending.type \in AssistantTypes THEN pending.text ELSE <<>>)

\* The part of it that turn q produced.
VisibleTextOf(q) == SelectSeq(VisibleText, LAMBDA t : t.q = q)

\* The values of the Content events handled for turn q, in arrival order.
ContentOf(q) ==
  LET at == SelectSeq([i \in 1..Len(procs[q].evs) |-> i],
                      LAMBDA i : procs[q].evs[i].type = "Content")
  IN [k \in 1..Len(at) |-> Token(q, at[k], procs[q].evs[at[k]].v)]

\* C13: as long as nothing was cancelled, the assistant text on display for a
\* turn that runs or has ended normally (flushed items in order, then the
\* pending item) is the values of the Content events handled for it, in
\* arrival order, whatever the splits and the flushes by other events.
C13_VisibleTextIsContentInOrder ==
  abortCalls = 0 =>
    \A q \in Streamed :
      procs[q].phase \in {"stream", "done"} => VisibleTextOf(q) = ContentOf(q)

\* A turn whose text was split at a paragraph break, flushed by an
\* informational event and continued afterwards.
C13_Witness ==
  /\ abortCalls = 0
  /\ \E q \in Streamed :
       /\ procs[q].phase = "stream"
       /\ procs[q].evs = << [type |-> "Content", v |-> "nl"],
                            [type |-> "Content", v |-> "t"],
                            [type |-> "ChatCompressed", v |-> ""],
                            [type |-> "Content", v |-> "t"] >>
       /\ Len(VisibleTextOf(q)) = 3

\* ------------------------------------------------- properties of the parser
\* The calls that the segment states, as its text encodes them.
EncodedCalls(seg) ==
  CASE seg = 1 -> <<FunctionCall("write_file", [file_path |-> "a", content |-> "b"])>>
    [] seg = 2 -> <<FunctionCall("list_directory", [dir_path |-> "d"])>>
    [] seg = 17 -> <<FunctionCall("list_directory", <<>>)>>
    [] seg = 6 -> <<FunctionCall("write_file", [path |-> "a"])>>
    [] OTHER -> <<>>

RECURSIVE EncodedCallsOf(_)
EncodedCallsOf(segs) ==
  IF segs = <<>> THEN <<>>
  ELSE EncodedCalls(Head(segs)) \o EncodedCallsOf(Tail(segs))

SegsOf(p) == {p.segs[n] : n \in 1..Len(p.segs)}

\* C14: the result of parseToolCalls is the calls of the delimited-JSON
\* strategy when it yields any, else those of the bare/fenced JSON strategy
\* when it yields any, else those of the positional strategy; so a later
\* strategy adds nothing to an earlier one, and the result is empty only
\* when the three yield nothing.
C14_FirstStrategyWins ==
  parser.parsed =>
    LET xml == parseXMLWrappedJSON(parser.text)
        json == parseJSONToolCalls(parser.text)
        fn == parseFunctionCallFormat(parser.text)
    IN /\ xml # <<>> => parser.calls = xml
       /\ xml = <<>> /\ json # <<>> => parser.calls = json
       /\ xml = <<>> /\ json = <<>> => parser.calls = fn
       /\ parser.calls = <<>> <=> xml = <<>> /\ json = <<>> /\ fn = <<>>

\* A text with a bare JSON call and a delimited call has been parsed into
\* the delimited call alone.
C14_Witness ==
  /\ parser.parsed
  /\ parseXMLWrappedJSON(parser.text) # <<>>
  /\ parseJSONToolCalls(parser.text) # <<>>
  /\ parser.segs = <<6, 1>>
  /\ Len(parser.calls) = 1

\* The segments that are well-formed delimited-JSON tool calls.
WellFormedDelimited == {1, 2, 17}

\* C15: a text made of well-formed delimited-JSON tool calls is parsed into
\* the calls its blocks encode, one per block, in order of appearance, the
\* argument keys replaced by their canonical names.
C15_DelimitedCallsExact ==
  parser.parsed /\ SegsOf(parser) \subseteq WellFormedDelimited =>
    parser.calls = EncodedCallsOf(parser.segs)

\* Two blocks, one of each shape and one with synonym keys, have been parsed.
C15_Witness ==
  /\ parser.parsed
  /\ parser.segs = <<2, 1>>
  /\ parser.calls = <<FunctionCall("list_directory", [dir_path |-> "d"]),
                      FunctionCall("write_file", [file_path |-> "a", content |-> "b"])>>

\* The markers of a tool call in a text: an opening and a closing marker
\* tag, "tool" in quotes, "name" and "arguments" in quotes, an allow-listed
\* tool name with an opening parenthesis after it.
HasMarker(text) ==
  \/ \E i, j \in 1..Len(text) : text[i].k = "open" /\ text[j].k = "close"
  \/ IncludesQuoted(text, "tool")
  \/ IncludesQuoted(text, "name") /\ IncludesQuoted(text, "arguments")
  \/ \E i \in 1..Len(text), n \in 1..Len(toolNames) :
       /\ text[i] = Ident(toolNames[n])
       /\ SkipSpace(text, i + 1) <= Len(text)
       /\ text[SkipSpace(text, i + 1)].k = "lp"

C17_KeysCanonical ==
  parser.parsed =>
    \A c \in 1..Len(parser.calls) :
      DOMAIN parser.calls[c].args \cap SynonymKeys = {}

\* Whether token i of the text stands at the start of a line or of the text,
\* or directly after white space.
AtWordStart(text, i) == i = 1 \/ text[i - 1].k = "ws"

\* C18: a tool name followed by parentheses that does not stand at the start
\* of a line or after white space yields no call: when the text has no other
\* call syntax and no JSON call, the result is empty.
C18_PositionalOnlyAtWordStart ==
  /\ parser.parsed
  /\ parseXMLWrappedJSON(parser.text) = <<>>
  /\ parseJSONToolCalls(parser.text) = <<>>
  /\ \A i \in 1..Len(parser.text), n \in 1..Len(toolNames) :
       CallAt(parser.text, toolNames[n], i)[1] # 0 => ~AtWordStart(parser.text, i)
  => parser.calls = <<>>

\* The segments that invoke an allow-listed tool with quoted positional
\* arguments, no more of them than its table has names: the tool and the
\* arguments.
PositionalSegments ==
  [seg \in {9, 10, 11} |->
     CASE seg = 9 -> [name |-> "write_file", values |-> <<"a", "b">>]
       [] seg = 10 -> [name |-> "edit_file", values |-> <<"f", "o", "n">>]
       [] OTHER -> [name |-> "read_file", values |-> <<"f">>]]

\* The call whose i-th value is under the i-th name of the table of its tool.
MappedByTable(call) ==
  FunctionCall(call.name,
               ObjectOf([i \in 1..Len(call.values) |->
                           <<toolParamMap[call.name][i], call.values[i]>>]))

\* C19: a positional call of an allow-listed tool with k quoted arguments, k
\* from 1 to the length of the table of the tool, is extracted with its i-th
\* argument under the i-th name of the table, for every i up to k.
C19_PositionalArgumentsMapped ==
  /\ parser.parsed
  /\ parseXMLWrappedJSON(parser.text) = <<>>
  /\ parseJSONToolCalls(parser.text) = <<>>
  => \A n \in 1..Len(parser.segs) :
       parser.segs[n] \in DOMAIN PositionalSegments =>
         \E c \in 1..Len(parser.calls) :
           parser.calls[c] = MappedByTable(PositionalSegments[parser.segs[n]])

\* The segments that one match of xmlPattern covers, well-formed or not, and
\* those that one match of jsonPattern covers.
DelimitedCandidates == {1, 2, 3, 4, 17}
LooseCandidates == {6, 7}

Stream == adapter.stream

\* What a complete line of the wire holds.
RecordOf(line) == parseLine(trimLine(line))

KindsOf(lines) == {RecordOf(lines[i]).kind : i \in 1..Len(lines)}

\* The records with a message among the lines, in order, up to the first
\* one that is done.
RECURSIVE RecordsUntilDone(_)
RecordsUntilDone(lines) ==
  IF lines = <<>> THEN <<>>
  ELSE LET r == RecordOf(Head(lines))
       IN IF r.kind # "record" THEN RecordsUntilDone(Tail(lines))
          ELSE IF r.done THEN <<r>>
          ELSE <<r>> \o RecordsUntilDone(Tail(lines))

\* C21: as long as no line carried an error field, the lines that are no
\* JSON or have no message leave no trace: the chunks yielded are, in order,
\* the records with a message received up to the first done one, and no
\* error leaves the generator but that of a read that failed.
C21_BadLinesSkipped ==
  "error" \notin KindsOf(Stream.lines) =>
    /\ Stream.status = "thrown" => Stream.thrown = <<"read failed">>
    /\ LET records == RecordsUntilDone(Stream.lines)
       IN /\ Len(Stream.yielded) = Len(records)
          /\ \A i \in 1..Len(records) :
               /\ Stream.yielded[i].text = records[i].content
               /\ Stream.yielded[i].done = records[i].done

\* A line that is no JSON and a line without message came before a record,
\* which was yielded.
C21_Witness ==
  /\ Len(Stream.lines) = 3
  /\ RecordOf(Stream.lines[1]).kind = "malformed"
  /\ RecordOf(Stream.lines[2]).kind = "nomessage"
  /\ RecordOf(Stream.lines[3]).kind = "record"
  /\ Len(Stream.yielded) = 1
  /\ Stream.status = "running"

\* The lines the loop has worked on: those up to the first record with a
\* message that is done.
RECURSIVE Processed(_)
Processed(lines) ==
  IF lines = <<>> THEN <<>>
  ELSE LET r == RecordOf(Head(lines))
       IN IF r.kind = "record" /\ r.done THEN <<Head(lines)>>
          ELSE <<Head(lines)>> \o Processed(Tail(lines))

\* C22: once the generator has worked on a record that carries an error
\* field, it has thrown: the stream is over with an error for the consumer.
C22_ErrorRecordTerminates ==
  "error" \in KindsOf(Processed(Stream.lines)) => Stream.status = "thrown"

\* The contents of the records, one after the other.
RECURSIVE ContentsOf(_)
ContentsOf(records) ==
  IF records = <<>> THEN <<>>
  ELSE Head(records).content \o ContentsOf(Tail(records))

\* C24: the chunks yielded are the records with a message up to the first
\* done one and nothing after it; when that record has come the generator
\* has returned.  A chunk before it carries no function call; the chunk of
\* the done record carries the native tool calls of the record when it has
\* some, and else what parseToolCalls makes of the contents of all the
\* records yielded, joined in order.
C24_DoneConcludes ==
  LET records == RecordsUntilDone(Stream.lines)
      n == Len(records)
  IN /\ Len(Stream.yielded) = n
     /\ \A i \in 1..n :
          /\ Stream.yielded[i].done = records[i].done
          /\ ~records[i].done => Stream.yielded[i].functionCalls = <<>>
          /\ records[i].done =>
               /\ i = n
               /\ Stream.status = "returned"
               /\ Stream.yielded[i].functionCalls =
                    IF Len(records[i].tool_calls) > 0
                    THEN nativeFunctionCalls(records[i].tool_calls)
                    ELSE parseToolCalls(ContentsOf(records))

\* A tool call written over two records was recovered from the accumulated
\* text when the second one was done, and the record that came after it in
\* the same chunk was not delivered.
C24_Witness ==
  /\ Len(Stream.lines) = 3
  /\ RecordOf(Stream.lines[1]) = Record(XmlFirst, FALSE, <<>>)
  /\ RecordOf(Stream.lines[2]) = Record(XmlRest, TRUE, <<>>)
  /\ RecordOf(Stream.lines[3]).kind = "record"
  /\ Len(Stream.yielded) = 2
  /\ Stream.yielded[2].functionCalls = EncodedCalls(1)
  /\ Stream.status = "returned"

\* ----------------------------------------------- properties of the requests
Invocations == adapter.invocations

\* The error that tells of a backend that cannot be reached, with what to
\* do about it.
IsConnectionError(error) ==
  /\ Len(error.message) >= 3
  /\ error.message[1] = "Cannot connect to Ollama server at "
  /\ error.message[3] = "Please check:"

\* The answers of /api/chat that are a status other than 2xx or a body
\* that is not what the protocol says.
BadResponses == {"status", "malformed", "nomessage", "nobody"}

\* C23: an invocation whose chat request found no backend ends with the
\* connection error and its remediation text; one whose chat request got
\* a status other than 2xx or a malformed response ends with an error that
\* is not the connection error; no invocation sends its chat request twice.
C23_ConnectionErrorDistinct ==
  \A i \in 1..Len(Invocations) :
    LET inv == Invocations[i]
    IN /\ inv.chatFetches <= 1
       /\ inv.pc = "done" =>
            /\ inv.chatFetches = 1
            /\ inv.answer = "fetch failed" =>
                 inv.result = "thrown" /\ IsConnectionError(inv.error)
            /\ inv.answer \in BadResponses =>
                 inv.result = "thrown" /\ ~IsConnectionError(inv.error)
            /\ IsConnectionError(inv.error) => inv.answer = "fetch failed"

\* One invocation found no backend and another one got a status that is
\* not 2xx: they ended with different errors.
C23_Witness ==
  /\ Len(Invocations) = 2
  /\ Invocations[1].method = "generateContent"
  /\ Invocations[1].answer = "fetch failed"
  /\ IsConnectionError(Invocations[1].error)
  /\ Invocations[2].method = "generateContentStream"
  /\ Invocations[2].answer = "status"
  /\ Invocations[2].result = "thrown"
  /\ ~IsConnectionError(Invocations[2].error)

\* The system messages of a request sent to /api/chat.
SystemMessages(ollamaRequest) ==
  SelectSeq(ollamaRequest.messages, LAMBDA msg : msg.role = "system")

\* Whether a text holds the tool schemas.
HoldsSchemas(content) ==
  \E k \in 1..Len(content) : content[k] = "## TOOL USAGE INSTRUCTIONS"

\* C25: a request with a non-empty tool list is sent with the tools field
\* when the capabilities of its model include tools, and then no system
\* message holds the schemas; else it is sent without the field and with
\* one system message that is the system instruction followed by the
\* schemas, or the schemas alone when there is no system instruction.
C25_SchemasSentOneWay ==
  \A i \in 1..Len(Invocations) :
    LET inv == Invocations[i]
        sent == inv.ollamaRequest
        system == SystemMessages(sent)
        schemas == buildToolSchemas(inv.request.tools.list)
        inSystem == \E k \in 1..Len(system) : HoldsSchemas(system[k].content)
    IN inv.pc # "probe" /\ hasToolsOf(inv.request) =>
         /\ sent.tools.given <=> "tools" \in inv.capabilities
         /\ sent.tools.given <=> ~inSystem
         /\ inSystem =>
              /\ Len(system) = 1
              /\ system[1].content =
                   IF inv.request.systemInstruction.given
                   THEN partsToText(inv.request.systemInstruction.parts)
                          \o <<"\n\n">> \o schemas
                   ELSE schemas

\* The same tools were sent as the tools field for a model with native tool
\* calling, and inside the system message for a model without.
C25_Witness ==
  /\ Len(Invocations) = 2
  /\ \A i \in 1..2 : Invocations[i].pc = "done" /\ hasToolsOf(Invocations[i].request)
  /\ Invocations[1].ollamaRequest.tools.given
  /\ SystemMessages(Invocations[1].ollamaRequest) = <<>>
  /\ ~Invocations[2].ollamaRequest.tools.given
  /\ Len(SystemMessages(Invocations[2].ollamaRequest)) = 1

\* C26: an invocation that began after getModelCapabilities had given an
\* answer for its model sends no probe and gets that same answer.
C26_ProbeCachedPerModel ==
  \A i \in 1..Len(Invocations) :
    LET inv == Invocations[i]
    IN inv.known # <<>> =>
         /\ ~inv.probed
         /\ inv.pc # "probe" => inv.capabilities = inv.known[1]

\* ------------------------------------ properties of approval and checkpoints
\* The tracked calls a change to the mode has to confirm, by the state
\* before the change.
ToConfirm(mode) ==
  {id \in TrackedIds(Cur) :
     /\ calls[id].status = "awaiting_approval"
     /\ \/ mode = "yolo"
        \/ mode = "autoEdit" /\ calls[id].name \in {"replace", "write_file"}}

\* C27: a change of the approval mode calls onConfirm once for each tracked
\* call that awaits approval and that the new mode approves (every one for
\* full auto-approval, those of replace and write_file for edit-only
\* auto-approval, none for another mode), whether or not onConfirm threw for
\* a call before it; the calls for which it did not throw become scheduled
\* and no other call changes.
C27_ModeChangeConfirmsRightCalls ==
  [][approval'.changes # approval.changes =>
       LET right == ToConfirm(approval'.mode)
       IN /\ Range(approval'.confirmed) = right
          /\ Len(approval'.confirmed) = Cardinality(right)
          /\ \A id \in DOMAIN calls :
               calls'[id].status =
                 IF id \in right \ approval'.failed
                 THEN "scheduled" ELSE calls[id].status]_vars

\* The mode became full auto-approval while two calls awaited approval: the
\* confirmation of the first one failed and the second one was confirmed.
C27_Witness ==
  /\ approval.mode = "yolo"
  /\ Len(approval.confirmed) = 2
  /\ approval.failed = {approval.confirmed[1]}
  /\ calls[approval.confirmed[1]].status = "awaiting_approval"
  /\ calls[approval.confirmed[2]].status = "scheduled"

\* The debug message of each thing that fails in saveRestorableToolCalls.
FailureMessage(failure) ==
  CASE failure = "mkdir" -> "Failed to create checkpoint directory"
    [] failure = "file_path" -> "Skipping restorable tool call due to missing file_path"
    [] failure = "git" -> "Git service is not available"
    [] failure = "snapshot" -> "Failed to create new snapshot"
    [] failure = "commit" -> "Failed to create snapshot"
    [] failure = "write" -> "Failed to create checkpoint"

\* C28: a run of saveRestorableToolCalls takes only tracked calls of replace
\* or write_file that await approval, and none when checkpointing is not
\* enabled; whatever fails in it, no error leaves it and no call, batch,
\* history item or flag of the engine changes, so the calls go on to be
\* approved and executed as before; a failure to create the directory, a
\* missing file_path or git service, a failed snapshot and a failed write
\* each give their debug message.
C28_CheckpointNeverBlocks ==
  [][checkpoint'.runs # checkpoint.runs =>
       /\ Range(checkpoint'.taken) \subseteq
            {id \in TrackedIds(Cur) :
               /\ calls[id].name \in {"replace", "write_file"}
               /\ calls[id].status = "awaiting_approval"}
       /\ checkpoint'.taken # <<>> => checkpoint'.enabled
       /\ \A failure \in checkpoint'.failures \ {"dir"} :
            FailureMessage(failure) \in checkpoint'.debug
       /\ checkpoint'.written # {} => checkpoint'.failures \subseteq {"snapshot", "file_path"}
       /\ ~checkpoint'.raised
       /\ calls' = calls /\ toolCalls' = toolCalls /\ requestQueue' = requestQueue
       /\ history' = history /\ pending' = pending
       /\ isResponding' = isResponding /\ procs' = procs]_vars

\* The checkpoint of a call failed with a debug message, and the call was
\* approved and executed all the same.
C28_Witness ==
  /\ checkpoint.runs = 1
  /\ "write" \in checkpoint.failures
  /\ checkpoint.debug # {}
  /\ \E i \in 1..Len(checkpoint.taken) : calls[checkpoint.taken[i]].status = "success"

\* C29: a call that is success, error or cancelled keeps that status in
\* every step (a cancellation of the turn, a change of the approval mode,
\* the marking of the calls as submitted, the continuation), and the status
\* with which a call was reported complete is the status it has ever after.
C29_TerminalStatesFinal ==
  /\ [][\A id \in DOMAIN calls :
          calls[id].status \in TerminalStatuses =>
            calls'[id].status = calls[id].status]_vars
  /\ [](\A n \in 1..Len(notified) : \A i \in 1..Len(notified[n]) :
          /\ notified[n][i].v \in TerminalStatuses
          /\ calls[notified[n][i].q].status = notified[n][i].v)

\* A call had failed when the turn was cancelled: the other call of the
\* batch became cancelled, the failed one stayed failed, and both were
\* reported and marked as submitted.
C29_Witness ==
  /\ cancelAllCalls >= 1
  /\ Len(calls) = 2
  /\ calls[1].status = "error"
  /\ calls[2].status = "cancelled"
  /\ calls[1].query = calls[2].query
  /\ Len(notified) = 1
  /\ submitted = {1, 2}

\* ------------------------------------------------------------- liveness
\* No stream is being consumed and the scheduler has reported every batch.
Settled ==
  /\ ActiveStreams(Cur) = {}
  /\ toolCalls = <<>>
  /\ requestQueue = <<>>

\* C30: whenever the streams have ended and every batch has been reported
\* complete, the streaming state becomes Idle.
C30_TurnReturnsToIdle == Settled ~> (streamingState(Cur) = "Idle")

\* ------------------------------------------------------------- rejected queries
\* A step of submitQuery that is rejected: no invocation is added.
RejectedSubmit ==
  /\ \E slash \in {"none", "schedule_tool", "handled"} : SubmitUser(slash)
  /\ streamingState(Cur) \in ActiveStates

\* C31: a user query rejected because a turn is active leaves the abort
\* controller, the turn-cancelled flag, the active-query marker, the
\* responding flag, the pending item and the history as they were.
C31_RejectedQueryChangesNothing ==
  [][RejectedSubmit =>
       UNCHANGED <<abortControllerRef, turnCancelled, activeQueryId,
                   isResponding, pending, history>>]_vars

\* ------------------------------------------------------------- failed streams
\* Stream q has delivered an Error or a UserCancelled event.
FailedOrCancelled(q) ==
  \E i \in 1..Len(procs[q].evs) : procs[q].evs[i].type \in {"Error", "UserCancelled"}

\* C32: the tool call requests accumulated from a stream that delivered an
\* Error or a UserCancelled event are not given to the scheduler.
C32_FailedStreamSchedulesNothing ==
  \A q \in 1..Len(procs) : FailedOrCancelled(q) => procs[q].sched = <<>>

\* ------------------------------------------------------------- one call per occurrence
\* C33: every segment of a text holds at most one tool invocation, and
\* parseToolCalls returns at most one call for each of them: no occurrence
\* is returned twice.
C33_OneCallPerOccurrence ==
  parser.parsed => Len(parser.calls) <= Len(parser.segs)

\* ------------------------------------------------------------- the pre-check
\* C34: when hasToolCalls answers false for a text, parseToolCalls answers
\* the empty sequence for it.
C34_PreCheckSound ==
  (parser.checked /\ parser.parsed /\ ~parser.has) => parser.calls = <<>>

\* ------------------------------------------------------------- native calls of every record
\* C35: every tool call in the tool_calls field of a record that the
\* generator has yielded, done or not, is in the function calls of the
\* chunk of that record.
C35_NativeCallsOfEveryRecord ==
  LET records == RecordsUntilDone(Stream.lines)
  IN \A i \in 1..Len(records) :
       (i <= Len(Stream.yielded) /\ Len(records[i].tool_calls) > 0) =>
         Stream.yielded[i].functionCalls = nativeFunctionCalls(records[i].tool_calls)

\* ------------------------------------------------------------- reads and records
\* The bytes of the reads, one after the other.
RECURSIVE Bytes(_)
Bytes(reads) == IF reads = <<>> THEN <<>> ELSE Head(reads) \o Bytes(Tail(reads))

\* The same bytes with every line in one piece: the first part of a line and
\* its rest, next to each other, are the whole line.
RECURSIVE Joined(_)
Joined(bytes) ==
  IF Len(bytes) < 2 THEN bytes
  ELSE IF /\ bytes[1].k = "first" /\ bytes[2].k = "rest"
          /\ bytes[1].line = bytes[2].line
  THEN <<Part("whole", bytes[1].line)>> \o Joined(SubSeq(bytes, 3, Len(bytes)))
  ELSE <<Head(bytes)>> \o Joined(Tail(bytes))

\* The generator that is given all the bytes in one read.
OneRead ==
  processLines([NoStream EXCEPT !.model = Stream.model],
               splitBuffer(Joined(Bytes(Stream.read)), <<>>, <<>>).lines)

\* C36: when the bytes read so far end with a newline, the chunks yielded
\* are those of the same bytes given in one read, whatever the reads were:
\* the same records, once each and in order.
C36_ReadsDoNotMatter ==
  Stream.buffer = <<>> => Stream.yielded = OneRead.yielded

\* The split line came in two reads after another line, and both were
\* yielded.
C36_Witness ==
  /\ Len(Stream.read) = 3
  /\ Stream.read[2] = <<Part("first", SplitLine)>>
  /\ Stream.read[3] = <<Part("rest", SplitLine), LineEnd>>
  /\ Stream.buffer = <<>>
  /\ Len(Stream.yielded) = 2
  /\ Stream.yielded[2].text = SplitLine.content

\* ------------------------------------------------------------- cancellation notices
\* The notices of a cancellation in the history.
CancellationNotices ==
  {i \in 1..Len(history) :
     history[i] \in {Info("Request cancelled."), Info("User cancelled the request.")}}

\* The queries of the user that were accepted.
UserTurns == {q \in 1..Len(procs) : procs[q].kind = "user"}

\* C37: the history of a session with one turn of the user holds at most
\* one cancellation notice, whichever of the cancel key, the UserCancelled
\* event and the completion of a batch that is all cancelled occur.
C37_OneCancellationNotice ==
  Cardinality(UserTurns) <= 1 => Cardinality(CancellationNotices) <= 1


\* ------------------------------------------------------------- the loop flag
\* Stream q has delivered a LoopDetected event.
LoopSeen(q) ==
  \E i \in 1..Len(procs[q].evs) : procs[q].evs[i].type = "LoopDetected"

\* C38: the loop decision request is raised only at the end of a stream
\* that delivered a LoopDetected event itself: the flag of an earlier turn,
\* also of one whose stream threw, is not left for a later one.
C38_LoopFlagStaysInItsTurn ==
  [][(~loopRequest /\ loopRequest') =>
       \E q \in 1..Len(procs) :
         /\ procs[q].phase = "stream"
         /\ procs'[q].phase = "done"
         /\ LoopSeen(q)]_vars


\* ------------------------------------------------------------- model selection
\* selectSmallestOllamaModel (src/packages/core/src/ollama/modelAutoSelect.ts).
\* The models that listModels may answer.
MaxModels == 3

ModelNames == <<"a", "b", "c", "d">>

\* What the health request of a model is answered: a 2xx status and a body
\* without error, a status that is not 2xx, a body with an error field, or
\* nothing (the fetch or response.json() rejects, or the timeout fires).
HealthAnswers == {"ok", "status", "error", "throws"}

OllamaModel(name, size) == [name |-> name, size |-> size]

\* testModelHealth: true only for a 2xx answer without an error field.
testModelHealth(answer) ==
  IF answer = "throws" THEN FALSE
  ELSE IF answer = "status" THEN FALSE
  ELSE IF answer = "error" THEN FALSE
  ELSE TRUE

\* A selection that tries the models in the order of the listing.
listedOrder(models) == models

RECURSIVE insertBySize(_, _)
\* model put after the last model of sorted that is not larger than it.
insertBySize(sorted, model) ==
  IF sorted = <<>> THEN <<model>>
  ELSE IF Head(sorted).size <= model.size
  THEN <<Head(sorted)>> \o insertBySize(Tail(sorted), model)
  ELSE <<model>> \o sorted

RECURSIVE sortFrom(_, _)
sortFrom(sorted, models) ==
  IF models = <<>> THEN sorted
  ELSE sortFrom(insertBySize(sorted, Head(models)), Tail(models))

\* [...models].sort((a, b) => a.size - b.size): ascending, and stable.
sortBySize(models) == sortFrom(<<>>, models)

\* What the health request for the model of this name is answered.
answerOf(s, name) ==
  LET i == CHOOSE i \in 1..Len(s.listed) : s.listed[i].name = name
  IN s.answers[i]

\* selectSmallestOllamaModel up to its first health request (lines 55-65).
listModelsAnswered(s) ==
  IF s.fails THEN [s EXCEPT !.pc = "done", !.result = "null"]
  ELSE IF Len(s.listed) = 0 THEN [s EXCEPT !.pc = "done", !.result = "null"]
  ELSE [s EXCEPT !.pc = "probe", !.sortedModels = sortBySize(s.listed)]

\* One turn of the loop over sortedModels (lines 68-80), and what follows
\* the loop when it was the last one (lines 83-84).
healthAnswered(s) ==
  LET model == s.sortedModels[Len(s.probed) + 1]
      isHealthy == testModelHealth(answerOf(s, model.name))
      s1 == [s EXCEPT !.probed = Append(@, model.name)]
  IN IF isHealthy THEN [s1 EXCEPT !.pc = "done", !.result = model.name]
     ELSE IF Len(s1.probed) = Len(s.sortedModels)
     THEN [s1 EXCEPT !.pc = "done", !.result = s.sortedModels[1].name]
     ELSE s1

\* The listings: up to MaxModels models of any sizes, in any order.
Listings ==
  UNION {{[i \in 1..n |-> OllamaModel(ModelNames[i], sizes[i])] :
            sizes \in [1..n -> 1..MaxModels]} : n \in 0..MaxModels}

SelectInit ==
  /\ HookInit
  /\ parser = NoText
  /\ adapter = NoAdapter
  /\ \E listed \in Listings, fails \in BOOLEAN :
       \E answers \in [1..Len(listed) -> HealthAnswers] :
         /\ fails => listed = <<>>
         /\ selector = [NoSelector EXCEPT !.listed = listed, !.fails = fails,
                                          !.answers = answers]

\* client.listModels() answers or throws.
ListModels ==
  /\ selector.pc = "list"
  /\ selector' = listModelsAnswered(selector)
  /\ UNCHANGED <<hookVars, parser, adapter>>

\* The health request of the next model is sent and answered.
TestModelHealth ==
  /\ selector.pc = "probe"
  /\ selector' = healthAnswered(selector)
  /\ UNCHANGED <<hookVars, parser, adapter>>

NextSelect == ListModels \/ TestModelHealth

SpecSelect == SelectInit /\ [][NextSelect]_vars

\* ------------------------------------------------------------- the smallest healthy model
Listed == {selector.listed[i] : i \in 1..Len(selector.listed)}

ModelOf(name) == CHOOSE m \in Listed : m.name = name

Healthy(name) == answerOf(selector, name) = "ok"

Probed == {selector.probed[i] : i \in 1..Len(selector.probed)}

\* C39: the health of the models is asked one model at a time in ascending
\* order of size, and of no model once one was healthy; the function returns
\* the smallest model that is healthy, the smallest model of the list when
\* none is, and null when the list is empty or listing fails.
C39_SmallestHealthyModel ==
  LET n == Len(selector.probed)
  IN /\ Cardinality(Probed) = n
     /\ \A i \in 1..n : \A m \in Listed :
          \/ m.name \in {selector.probed[j] : j \in 1..i}
          \/ ModelOf(selector.probed[i]).size <= m.size
     /\ \A i \in 1..(n - 1) : ~Healthy(selector.probed[i])
     /\ (n > 0 /\ Healthy(selector.probed[n])) => selector.pc = "done"
     /\ selector.pc = "done" =>
          IF selector.fails \/ selector.listed = <<>>
          THEN selector.result = "null" /\ n = 0
          ELSE /\ selector.result \in {m.name : m \in Listed}
               /\ \A m \in Listed :
                    (Healthy(m.name) \/ ~\E h \in Listed : Healthy(h.name)) =>
                      ModelOf(selector.result).size <= m.size
               /\ (\E h \in Listed : Healthy(h.name)) =>
                    Healthy(selector.result) /\ selector.result = selector.probed[n]
               /\ (~\E h \in Listed : Healthy(h.name)) => n = Len(selector.listed)

\* The largest model was listed first; the smallest was asked first and was
\* not healthy, the next one was, and it was returned without asking the
\* largest.
C39_Witness ==
  /\ selector.pc = "done"
  /\ Len(selector.listed) = 3
  /\ selector.listed[1].size = 3
  /\ selector.listed[2].size = 1
  /\ selector.listed[3].size = 2
  /\ selector.answers[1] = "ok"
  /\ selector.probed = <<"b", "c">>
  /\ selector.result = "c"

====
